---- MODULE Spec2Model ----
(***************************************************************************)
(* Model of package_install.py: the menu loop of main(), the external      *)
(* packages menu, the install/setup actions as sequences of external       *)
(* steps, the mirror loop of install_emacs and the four status probes.     *)
(*                                                                         *)
(* Four specifications share the variables:                                *)
(*   Spec        the menu loop (main, handle_external_packages)            *)
(*   SpecAction  one install/setup function, step by step                  *)
(*   SpecFetch   the mirror loop of install_emacs                          *)
(*   SpecProbe   the check_*_status functions on a host state              *)
(***************************************************************************)
EXTENDS Integers, Sequences, FiniteSets, TLC

VARIABLES
    \* ---- main(): menu loop -------------------------------------------
    menu,          \* the menu whose loop is running, or Exit / Crashed
    pc,            \* position inside that loop
    selected,      \* main(): selected
    idx,           \* index of the selection the for loop is at
    any_failed,    \* main(): any_failed
    report,        \* per-selection outcome lines printed for this batch
    executed,      \* ids whose function was called in this batch
    ext_selected,  \* handle_external_packages(): selected
    ext_idx,       \* its for loop index
    ext_report,    \* outcome lines printed for the external batch
    ext_executed,  \* external ids whose function was called
    typed,         \* the last line read by input(), and the prompt it answered
    \* ---- one action, step by step ------------------------------------
    act,           \* the function being executed, "none" when idle
    apc,           \* index of its next step
    ran,           \* steps started so far, with their outcome
    ares,          \* what the function returned (or that it raised)
    \* ---- install_emacs(): mirror loop --------------------------------
    fpc,           \* "idle" | "loop" | "done"
    index,         \* the release index as get_latest_emacs_version found it
    entered,       \* the line typed at the version prompt
    version,       \* the version string the URLs are built from
    fi,            \* loop index i (1-based)
    tried,         \* wget runs so far: [url, out]
    download_success,
    fprinted,      \* lines printed by the loop
    fres,          \* how the download part ended
    \* ---- status probes -----------------------------------------------
    host,          \* the host state the probes read
    probe,         \* the probe that ran last, "none" before
    pres,          \* its result
    before,        \* the probe call before the last one: probe, result, host
    shown,         \* show_settings_menu(): the four statuses printed last
    \* ---- main(): startup ---------------------------------------------
    manifest,      \* package_list.txt beside the script
    packages,      \* what parse_package_file returned
    exit_code,     \* the exit status of the process, -1 while it runs
    \* ---- install/setup functions run on a host -----------------------
    runs           \* the calls so far: function, how it ended, the host before

navVars    == <<menu, pc, selected, idx, any_failed, report, executed,
                ext_selected, ext_idx, ext_report, ext_executed, typed>>
actionVars == <<act, apc, ran, ares>>
fetchVars  == <<fpc, index, entered, version, fi, tried, download_success,
                fprinted, fres>>
probeVars  == <<host, probe, pres, before, shown>>
startVars  == <<manifest, packages, exit_code>>
vars       == <<navVars, actionVars, fetchVars, probeVars, startVars, runs>>

\* Longest comma-separated choice typed at a menu prompt.
MaxSel == 2
\* Longest marker file (in lines) of a host state.
MaxLines == 2
\* Longest package_list.txt (in lines).
MaxManifest == 3
\* Most calls of install/setup functions in a row on one host.
MaxRuns == 2
\* Most release files listed on the index page.
MaxMatches == 2

(***************************************************************************)
(* Strings.  The few strings the model handles are mapped as Python maps   *)
(* them.                                                                   *)
(***************************************************************************)
\* str.lower()
Lower(s) ==
    CASE s = "B"   -> "b"
      [] s = "Q"   -> "q"
      [] s = "Y"   -> "y"
      [] s = "N"   -> "n"
      [] s = "ALL" -> "all"
      [] OTHER     -> s

\* str.strip()
Strip(s) ==
    CASE s = " 1" -> "1"
      [] s = "b " -> "b"
      [] s = " "  -> ""
      [] s = " gcc " -> "gcc"
      [] s = " 29.4" -> "29.4"
      [] OTHER    -> s

Range(q) == {q[i] : i \in DOMAIN q}

RECURSIVE SeqsUpTo(_, _)
SeqsUpTo(S, n) ==
    IF n = 0 THEN {<<>>}
    ELSE LET shorter == SeqsUpTo(S, n - 1)
         IN  shorter \cup {Append(q, x) : q \in {r \in shorter : Len(r) = n - 1}, x \in S}

(***************************************************************************)
(* The install/setup functions.  Each is a straight-line sequence of       *)
(* steps; a step is one external call or one Python-level test.            *)
(*   kind  "check"  a Python test (dict membership, os.path.exists, glob)  *)
(*         "run"    subprocess.run(..., check=True)                        *)
(*         "test"   subprocess.run(...) without check=True; the code looks *)
(*                  at returncode itself, or not at all                    *)
(*         "io"     Python file or network I/O                             *)
(*   catch "cpe"    inside try ... except subprocess.CalledProcessError    *)
(*         "exc"    inside try ... except Exception                        *)
(*         "none"   outside any try                                        *)
(*   fail  "abort"  return False, diag                                     *)
(*         "warn"   print a warning, go on after the try block             *)
(*         "ask"    ask the operator whether to proceed                    *)
(*         "ignore" the result is not looked at                            *)
(*   blk   the try block (or statement) the step belongs to                *)
(***************************************************************************)
St(n, tool, kind, catch, fail, blk, diag) ==
    [n |-> n, tool |-> tool, kind |-> kind, catch |-> catch, fail |-> fail,
     blk |-> blk, diag |-> diag]

\* An install_packages whose failure message leaves out e.stderr.
install_packages_NoDiagnostic(section_name, blk) ==
    St("apt_install", "sudo", "run", "cpe", "abort", blk,
       <<"Failed to install", section_name, "packages">>)

\* install_packages(package_list, section_name): sudo apt install -y ...
install_packages(section_name, blk) ==
    St("apt_install", "sudo", "run", "cpe", "abort", blk,
       <<"Failed to install", section_name, "packages", "stderr">>)

install_basic_packages ==
    << St("has_section", "python", "check", "none", "abort", 1,
          <<"No 'dev' section found in package list">>),
       install_packages("basic development", 2) >>

\* The compile loop is unrolled over one directory per required program.
install_dwm_dependencies ==
    << St("has_section", "python", "check", "none", "abort", 1,
          <<"No 'dwm' section found in package list">>),
       install_packages("DWM dependencies", 2),
       St("suckless_dir", "python", "check", "none", "abort", 3,
          <<"Suckless directory not found">>),
       St("glob_dwm", "python", "check", "none", "abort", 4,
          <<"Required program", "dwm", "not found">>),
       St("glob_st", "python", "check", "none", "abort", 5,
          <<"Required program", "st", "not found">>),
       St("glob_dmenu", "python", "check", "none", "abort", 6,
          <<"Required program", "dmenu", "not found">>),
       St("glob_slock", "python", "check", "none", "abort", 7,
          <<"Required program", "slock", "not found">>),
       St("glob_slstatus", "python", "check", "none", "abort", 8,
          <<"Required program", "slstatus", "not found">>),
       St("make_dwm", "make", "run", "cpe", "abort", 9,
          <<"Failed to compile", "dwm", "stderr">>),
       St("install_dwm", "sudo", "run", "cpe", "abort", 10,
          <<"Failed to install", "dwm", "stderr">>),
       St("make_st", "make", "run", "cpe", "abort", 11,
          <<"Failed to compile", "st", "stderr">>),
       St("install_st", "sudo", "run", "cpe", "abort", 12,
          <<"Failed to install", "st", "stderr">>),
       St("make_dmenu", "make", "run", "cpe", "abort", 13,
          <<"Failed to compile", "dmenu", "stderr">>),
       St("install_dmenu", "sudo", "run", "cpe", "abort", 14,
          <<"Failed to install", "dmenu", "stderr">>),
       St("make_slock", "make", "run", "cpe", "abort", 15,
          <<"Failed to compile", "slock", "stderr">>),
       St("install_slock", "sudo", "run", "cpe", "abort", 16,
          <<"Failed to install", "slock", "stderr">>),
       St("make_slstatus", "make", "run", "cpe", "abort", 17,
          <<"Failed to compile", "slstatus", "stderr">>),
       St("install_slstatus", "sudo", "run", "cpe", "abort", 18,
          <<"Failed to install", "slstatus", "stderr">>) >>

\* The mirror loop is one step here (all mirrors failed = nonzero); SpecFetch
\* models it attempt by attempt.
install_emacs ==
    << St("latest_version", "python", "io", "exc", "warn", 1,
          <<"Error fetching latest version, using fallback">>),
       St("download", "wget", "run", "cpe", "abort", 2,
          <<"Failed to download Emacs from all mirrors">>),
       St("extract", "tar", "run", "cpe", "abort", 3,
          <<"Failed to extract Emacs", "stderr">>),
       St("has_section", "python", "check", "none", "abort", 4,
          <<"No 'emacs' section found in package list">>),
       install_packages("Emacs dependencies", 5),
       St("configure", "configure", "run", "cpe", "abort", 6,
          <<"Failed to configure Emacs", "stderr">>),
       St("nproc_make", "nproc", "test", "cpe", "ignore", 7, <<>>),
       St("make", "make", "run", "cpe", "abort", 7,
          <<"Failed to compile Emacs", "stderr">>),
       St("nproc_check", "nproc", "test", "none", "ignore", 8, <<>>),
       St("make_check", "make", "test", "none", "ask", 9,
          <<"Installation cancelled by user due to test issues">>),
       St("make_install", "sudo", "run", "cpe", "abort", 10,
          <<"Failed to install Emacs", "stderr">>) >>

install_stow ==
    << St("download", "wget", "run", "cpe", "abort", 1,
          <<"Failed to download GNU Stow", "stderr">>),
       St("rm_old", "rm", "run", "cpe", "abort", 2,
          <<"Failed to extract GNU Stow", "stderr">>),
       St("extract", "tar", "run", "cpe", "abort", 2,
          <<"Failed to extract GNU Stow", "stderr">>),
       St("find_dir", "python", "check", "exc", "abort", 3,
          <<"Could not find extracted Stow directory">>),
       St("configure", "configure", "run", "cpe", "abort", 4,
          <<"Failed to configure GNU Stow", "stderr">>),
       St("make", "make", "run", "cpe", "abort", 5,
          <<"Failed to compile GNU Stow", "stderr">>),
       St("make_install", "sudo", "run", "cpe", "abort", 6,
          <<"Failed to install GNU Stow", "stderr">>) >>

install_utils ==
    << St("has_section", "python", "check", "none", "abort", 1,
          <<"No 'utils' section found in package list">>),
       install_packages("utilities", 2) >>

install_bluetuith ==
    << St("apt_deps", "sudo", "run", "cpe", "abort", 1,
          <<"Failed to install bluetuith dependencies", "stderr">>),
       St("makedirs", "python", "io", "none", "abort", 2, <<>>),
       St("go_install", "go", "run", "cpe", "abort", 3,
          <<"Failed to install bluetuith", "stderr">>),
       St("bashrc", "python", "io", "exc", "warn", 4,
          <<"Warning: Failed to update .bashrc">>) >>

install_ncpamixer ==
    << St("apt_deps", "sudo", "run", "cpe", "abort", 1,
          <<"Failed to install ncpamixer dependencies", "stderr">>),
       St("rm_old", "rm", "run", "cpe", "abort", 2,
          <<"Failed to clone ncpamixer repository", "stderr">>),
       St("git_clone", "git", "run", "cpe", "abort", 2,
          <<"Failed to clone ncpamixer repository", "stderr">>),
       St("make", "make", "run", "cpe", "abort", 3,
          <<"Failed to compile ncpamixer", "stderr">>),
       St("make_install", "sudo", "run", "cpe", "abort", 4,
          <<"Failed to install ncpamixer", "stderr">>),
       St("xinitrc", "python", "io", "exc", "warn", 5,
          <<"Warning: Failed to update .xinitrc">>) >>

setup_emacs_server ==
    << St("which", "which", "test", "none", "abort", 1, <<"Emacs not installed">>),
       St("makedirs", "python", "io", "none", "abort", 2, <<>>),
       St("service_file", "python", "io", "exc", "abort", 3,
          <<"Failed to create service file", "e">>),
       St("bashrc", "python", "io", "exc", "abort", 4,
          <<"Failed to update .bashrc", "e">>),
       St("wrapper_tee", "sudo", "run", "cpe", "warn", 5,
          <<"Warning: Failed to create wrapper script">>),
       St("wrapper_chmod", "sudo", "run", "cpe", "warn", 5,
          <<"Warning: Failed to create wrapper script">>),
       St("daemon_reload", "systemctl", "run", "cpe", "abort", 6,
          <<"Failed to enable service", "e">>),
       St("enable", "systemctl", "run", "cpe", "abort", 6,
          <<"Failed to enable service", "e">>),
       St("start", "systemctl", "run", "cpe", "abort", 6,
          <<"Failed to enable service", "e">>) >>

setup_firefox_private ==
    << St("which", "which", "test", "none", "abort", 1, <<"dmenu not installed">>),
       St("glob_firefox", "python", "check", "none", "abort", 2,
          <<"Firefox not installed">>),
       St("desktop_tee", "sudo", "run", "exc", "abort", 3,
          <<"Failed to create desktop file", "e">>),
       St("desktop_chmod", "sudo", "run", "exc", "abort", 3,
          <<"Failed to create desktop file", "e">>) >>

setup_displayport_switching ==
    << St("which", "which", "test", "none", "abort", 1, <<"xrandr not installed">>),
       St("udev_rule", "sudo", "run", "cpe", "abort", 2,
          <<"Failed to create udev rule file", "e">>),
       St("script_tee", "sudo", "run", "cpe", "abort", 3,
          <<"Failed to create switching script", "e">>),
       St("script_chmod", "sudo", "run", "cpe", "abort", 4,
          <<"Failed to make script executable", "e">>),
       St("udev_reload", "sudo", "run", "cpe", "abort", 5,
          <<"Failed to reload udev rules", "e">>),
       St("udev_trigger", "sudo", "run", "cpe", "abort", 6,
          <<"Failed to trigger udev rules", "e">>),
       St("boot_tee", "sudo", "run", "cpe", "warn", 7,
          <<"Warning: Failed to create boot service">>),
       St("boot_reload", "sudo", "run", "cpe", "warn", 7,
          <<"Warning: Failed to create boot service">>),
       St("boot_enable", "sudo", "run", "cpe", "warn", 7,
          <<"Warning: Failed to create boot service">>) >>

setup_power_management ==
    << St("which", "which", "test", "none", "abort", 1, <<"xset not installed">>),
       St("xprofile", "python", "io", "exc", "abort", 2,
          <<"Failed to configure screen timeout", "e">>),
       St("logind_exists", "python", "check", "exc", "abort", 3,
          <<"systemd logind config not found">>),
       St("logind_rewrite", "python", "io", "exc", "abort", 3,
          <<"Failed to configure system hibernate", "e">>),
       St("logind_cp", "sudo", "run", "exc", "abort", 3,
          <<"Failed to configure system hibernate", "e">>),
       St("logind_rm", "rm", "run", "exc", "abort", 3,
          <<"Failed to configure system hibernate", "e">>),
       St("logind_restart", "sudo", "run", "cpe", "abort", 4,
          <<"Failed to restart systemd-logind", "e">>),
       St("xset_now", "xset", "run", "cpe", "warn", 5,
          <<"Warning: Failed to apply screen timeout to current session">>) >>

ActionNames ==
    {"install_basic_packages", "install_dwm_dependencies", "install_emacs",
     "install_stow", "install_utils", "install_bluetuith", "install_ncpamixer",
     "setup_emacs_server", "setup_firefox_private",
     "setup_displayport_switching", "setup_power_management"}

\* An install_dwm_dependencies that compiles each program as soon as it is
\* found, before the later programs are looked for.
Steps_CompileAsFound(a) ==
    CASE a = "install_basic_packages"      -> install_basic_packages
      [] a = "install_dwm_dependencies"    ->
             [i \in 1..18 |->
                 install_dwm_dependencies[
                     <<1, 2, 3, 4, 9, 10, 5, 11, 12, 6, 13, 14, 7, 15, 16, 8, 17, 18>>[i]]]
      [] a = "install_emacs"               -> install_emacs
      [] a = "install_stow"                -> install_stow
      [] a = "install_utils"               -> install_utils
      [] a = "install_bluetuith"           -> install_bluetuith
      [] a = "install_ncpamixer"           -> install_ncpamixer
      [] a = "setup_emacs_server"          -> setup_emacs_server
      [] a = "setup_firefox_private"       -> setup_firefox_private
      [] a = "setup_displayport_switching" -> setup_displayport_switching
      [] a = "setup_power_management"      -> setup_power_management

\* The steps of each function, in program order.
Steps(a) ==
    CASE a = "install_basic_packages"      -> install_basic_packages
      [] a = "install_dwm_dependencies"    -> install_dwm_dependencies
      [] a = "install_emacs"               -> install_emacs
      [] a = "install_stow"                -> install_stow
      [] a = "install_utils"               -> install_utils
      [] a = "install_bluetuith"           -> install_bluetuith
      [] a = "install_ncpamixer"           -> install_ncpamixer
      [] a = "setup_emacs_server"          -> setup_emacs_server
      [] a = "setup_firefox_private"       -> setup_firefox_private
      [] a = "setup_displayport_switching" -> setup_displayport_switching
      [] a = "setup_power_management"      -> setup_power_management

\* Commands of Essential Debian packages (coreutils, debianutils, tar), and
\* xset where `which xset` has just found it: starting them cannot fail.
AlwaysPresent == {"which", "nproc", "rm", "tar", "xset"}

\* What one step can do.  "nonzero" is a non-zero exit status; "oserror" is an
\* OSError raised by Python itself (FileNotFoundError from subprocess.run when
\* the command is not on PATH, PermissionError or the like from file I/O).
StepOutcomes(s) ==
    CASE s.kind = "check" -> {"ok", "fail"}
      [] s.kind = "io"    -> {"ok", "oserror"}
      [] OTHER            -> {"ok", "nonzero"} \cup
                             (IF s.tool \in AlwaysPresent THEN {} ELSE {"oserror"})

\* The failure policy of the step's try block.
Handled(s) ==
    CASE s.fail = "abort"  -> "abort"
      [] s.fail = "warn"   -> "skip"
      [] s.fail = "ask"    -> "ask"
      [] s.fail = "ignore" -> "next"

\* Python's control flow on outcome o of step s:
\*   "next"  go on with the next step       "skip"  go on after the try block
\*   "abort" return False, s.diag           "ask"   prompt the operator
\*   "raise" the exception leaves the function
\* check=True turns a non-zero exit into CalledProcessError, which both except
\* clauses catch; an OSError is caught by except Exception only.
StepEffect_GoOn(s, o) ==
    CASE o = "ok"      -> "next"
      [] o = "fail"    -> "abort"
      [] o = "nonzero" -> IF s.fail = "ask" THEN "ask" ELSE "skip"
      [] o = "oserror" -> IF s.catch = "exc" THEN "skip" ELSE "raise"

StepEffect(s, o) ==
    CASE o = "ok"      -> "next"
      [] o = "fail"    -> "abort"
      [] o = "nonzero" -> IF s.kind = "test" THEN Handled(s)
                          ELSE IF s.catch = "none" THEN "raise" ELSE Handled(s)
      [] o = "oserror" -> IF s.catch = "exc" THEN Handled(s) ELSE "raise"

\* The first step after the try block of step i.
AfterBlock(steps, i) ==
    LET later == {j \in (i + 1)..Len(steps) : steps[j].blk # steps[i].blk}
    IN  IF later = {} THEN Len(steps) + 1
        ELSE CHOOSE j \in later : \A k \in later : j <= k

NoResult == [kind |-> "none", err |-> <<>>]
Success  == [kind |-> "ok", err |-> <<>>]
Failure(reason) == [kind |-> "fail", err |-> reason]
Raised   == [kind |-> "raise", err |-> <<>>]

\* The results a function can return to the menu loop.
Results(a) ==
    {"ok"}
    \cup (IF \E i \in DOMAIN Steps(a) : \E o \in StepOutcomes(Steps(a)[i]) :
                StepEffect(Steps(a)[i], o) \in {"abort", "ask"}
          THEN {"fail"} ELSE {})
    \cup (IF \E i \in DOMAIN Steps(a) : \E o \in StepOutcomes(Steps(a)[i]) :
                StepEffect(Steps(a)[i], o) = "raise"
          THEN {"raise"} ELSE {})

(***************************************************************************)
(* SpecAction: one install/setup function executed step by step.           *)
(***************************************************************************)
ActionParked == act = "none" /\ apc = 0 /\ ran = <<>> /\ ares = NoResult

\* The function is called: nothing of it has been printed or answered yet.
Invoke(a) ==
    /\ act = "none"
    /\ act' = a
    /\ apc' = 1
    /\ ran' = <<>>
    /\ ares' = NoResult
    /\ report' = <<>>
    /\ typed' = [at |-> "none", line |-> <<>>]
    /\ UNCHANGED <<menu, pc, selected, idx, any_failed, executed,
                   ext_selected, ext_idx, ext_report, ext_executed>>

\* Control reaches step j: past the last step the function returns True, "".
Goto(j) ==
    /\ apc' = j
    /\ ares' = IF j > Len(Steps(act)) THEN Success ELSE NoResult

\* The step at apc runs and ends with outcome o.
RunStep(o) ==
    /\ act # "none"
    /\ ares.kind = "none"
    /\ apc \in DOMAIN Steps(act)
    /\ LET s == Steps(act)[apc]
           e == StepEffect(s, o)
       IN  /\ o \in StepOutcomes(s)
           /\ ran' = Append(ran, [i |-> apc, n |-> s.n, out |-> o])
           /\ CASE e = "next"  -> Goto(apc + 1)
                [] e = "skip"  -> Goto(AfterBlock(Steps(act), apc))
                [] e = "abort" -> apc' = apc /\ ares' = Failure(s.diag)
                [] e = "ask"   -> apc' = apc /\ ares' = [kind |-> "ask", err |-> <<>>]
                [] e = "raise" -> apc' = apc /\ ares' = Raised
    /\ UNCHANGED act

\* An install_emacs that takes the empty answer as consent.
AnswerProceed_EmptyIsYes(ans) ==
    /\ ares.kind = "ask"
    /\ IF Lower(Strip(ans)) \notin {"y", ""}
       THEN apc' = apc /\ ares' = Failure(Steps(act)[apc].diag)
       ELSE Goto(apc + 1)
    /\ typed' = [at |-> "proceed", line |-> <<ans>>]
    /\ UNCHANGED <<act, ran>>
    /\ UNCHANGED <<menu, pc, selected, idx, any_failed, report, executed,
                   ext_selected, ext_idx, ext_report, ext_executed>>

\* install_emacs, lines 221-223: proceed = input(...).strip().lower()
AnswerProceed(ans) ==
    /\ ares.kind = "ask"
    /\ IF Lower(Strip(ans)) # "y"
       THEN apc' = apc /\ ares' = Failure(Steps(act)[apc].diag)
       ELSE Goto(apc + 1)
    /\ typed' = [at |-> "proceed", line |-> <<ans>>]
    /\ UNCHANGED <<act, ran>>
    /\ UNCHANGED <<menu, pc, selected, idx, any_failed, report, executed,
                   ext_selected, ext_idx, ext_report, ext_executed>>

\* main(), lines 1167-1175: what the caller holds in success, error and prints.
Returned(a, r) == [id |-> a, out |-> r.kind, error |-> r.err]

\* The function has returned to the menu loop, which prints the outcome; the
\* function can be called again.
Return ==
    /\ ares.kind \in {"ok", "fail"}
    /\ act' = "none"
    /\ apc' = 0
    /\ ran' = <<>>
    /\ ares' = NoResult
    /\ report' = <<Returned(act, ares)>>
    /\ UNCHANGED <<menu, pc, selected, idx, any_failed, executed, typed,
                   ext_selected, ext_idx, ext_report, ext_executed>>

Answers == {"y", "Y", "n", ""}
AllOutcomes == {"ok", "fail", "nonzero", "oserror"}

(***************************************************************************)
(* SpecFetch: the mirror loop of install_emacs.                            *)
(***************************************************************************)
\* The versions of the emacs-X.Y.tar.gz files an index page can list.
IndexVersions == {"29.4", "30.2", "9.9"}

\* [int(x) for x in version.split('.')]
Parts(v) ==
    CASE v = "29.4" -> <<29, 4>>
      [] v = "30.1" -> <<30, 1>>
      [] v = "30.2" -> <<30, 2>>
      [] v = "9.9"  -> <<9, 9>>

\* Python's list comparison p < q: the first differing element decides, a
\* proper prefix is smaller.
RECURSIVE PartsLess(_, _)
PartsLess(p, q) ==
    IF p = <<>> THEN q # <<>>
    ELSE IF q = <<>> THEN FALSE
    ELSE IF Head(p) # Head(q) THEN Head(p) < Head(q)
    ELSE PartsLess(Tail(p), Tail(q))

\* versions.sort(reverse=True) on the (parts, version) pairs.
RECURSIVE SortReverse(_)
SortReverse(vs) ==
    IF vs = <<>> THEN <<>>
    ELSE LET rest   == SortReverse(Tail(vs))
             larger  == SelectSeq(rest, LAMBDA w : ~PartsLess(Parts(w), Parts(Head(vs))))
             smaller == SelectSeq(rest, LAMBDA w : PartsLess(Parts(w), Parts(Head(vs))))
         IN  larger \o <<Head(vs)>> \o smaller

\* What urlopen and re.findall give: an exception, or the versions matched
\* on the page, in page order.
Index(st, matches) == [st |-> st, matches |-> matches]
NoIndex == Index("none", <<>>)
Indexes ==
    {Index("error", <<>>)}
    \cup {Index("ok", ms) : ms \in SeqsUpTo(IndexVersions, MaxMatches)}

\* A lookup that takes the first file listed on the page.
get_latest_emacs_version_FirstListed(ix) ==
    IF ix.st = "error" THEN "30.1"
    ELSE IF ix.matches # <<>> THEN ix.matches[1]
    ELSE "30.1"

get_latest_emacs_version(ix) ==
    IF ix.st = "error" THEN "30.1"
    ELSE IF ix.matches # <<>> THEN SortReverse(ix.matches)[1]
    ELSE "30.1"

\* What the operator can type at "Enter Emacs version (default: ...)".
VersionInputs == {"", " ", "29.4", " 29.4"}

MirrorHosts ==
    <<"ftp.kaist.ac.kr", "ftp.gnu.org", "ftp.jaist.ac.jp", "ftpmirror.gnu.org">>

\* mirrors: the URL list, in order of preference.
mirrors(v) == [i \in DOMAIN MirrorHosts |-> [host |-> MirrorHosts[i], file |-> v]]

\* url.split('/')[2]
mirror_name(url) == url.host

\* Exit statuses of a failed wget (generic, network failure, server error).
ExitCodes == {1, 4, 8}

Line(text, name, rc) == [text |-> text, mirror |-> name, rc |-> rc]

\* What the loop does after the attempt on mirror i of n.
LoopCtl_NoBreak(i, n, succeeded) ==
    IF i < n THEN "continue" ELSE IF succeeded THEN "break" ELSE "exhausted"

LoopCtl(i, n, succeeded) ==
    IF succeeded THEN "break"
    ELSE IF i < n THEN "continue" ELSE "exhausted"

\* What install_emacs returns when download_success is still False.
DownloadFailure_WithDetail(attempts) ==
    Failure(<<"Failed to download Emacs from all mirrors",
              attempts[Len(attempts)].url.host>>)

DownloadFailure(attempts) ==
    Failure(<<"Failed to download Emacs from all mirrors">>)

FetchParked ==
    /\ fpc = "idle" /\ version = "" /\ fi = 0 /\ tried = <<>>
    /\ index = NoIndex /\ entered = ""
    /\ download_success = FALSE /\ fprinted = <<>> /\ fres = NoResult

\* Lines 129-149: the version is settled and the loop is entered.
FetchStart(ix, line) ==
    /\ fpc = "idle"
    /\ fpc' = "loop"
    /\ index' = ix
    /\ entered' = line
    /\ version' = LET latest_version == get_latest_emacs_version(ix)
                      v == Strip(line)
                  IN  IF v = "" THEN latest_version ELSE v
    /\ fi' = 1
    /\ tried' = <<>>
    /\ download_success' = FALSE
    /\ fprinted' = <<>>
    /\ fres' = NoResult

\* How one wget run can end: exit status 0, a non-zero exit status, or
\* FileNotFoundError because wget is not installed.
AttemptOutcomes ==
    {[st |-> "ok", rc |-> 0], [st |-> "oserror", rc |-> 0]}
    \cup {[st |-> "nonzero", rc |-> c] : c \in ExitCodes}

\* One iteration: wget on mirrors[i] ends with out, and control runs on to the
\* next wget or to the end of the download part.
Attempt(out) ==
    /\ fpc = "loop"
    /\ LET ms   == mirrors(version)
           url  == ms[fi]
           name == mirror_name(url)
           att  == Append(tried, [url |-> url, out |-> out])
           head == fprinted \o <<Line("Trying mirror", name, 0)>>
       IN  /\ tried' = att
           /\ IF out.st = "oserror"
              THEN /\ fprinted' = head
                   /\ fres' = Raised
                   /\ fpc' = "done"
                   /\ UNCHANGED <<fi, download_success>>
              ELSE LET ctl  == LoopCtl(fi, Len(ms), out.st = "ok")
                       succ == download_success \/ out.st = "ok"
                       said == IF out.st = "ok"
                               THEN <<Line("Emacs downloaded successfully", name, 0)>>
                               ELSE <<Line("Failed from", name, out.rc)>> \o
                                    (IF fi < Len(ms)
                                     THEN <<Line("Trying next mirror", name, 0)>>
                                     ELSE <<>>)
                   IN  /\ fprinted' = head \o said
                       /\ download_success' = succ
                       /\ IF ctl = "continue"
                          THEN fi' = fi + 1 /\ fpc' = "loop" /\ fres' = NoResult
                          ELSE /\ fi' = fi
                               /\ fpc' = "done"
                               /\ fres' = IF succ
                                          THEN [kind |-> "downloaded", err |-> <<>>]
                                          ELSE DownloadFailure(att)
    /\ UNCHANGED <<version, index, entered>>

\* install_emacs is over (or went on to extraction); it can be called again.
FetchReset ==
    /\ fpc = "done"
    /\ fres.kind # "raise"
    /\ fpc' = "idle" /\ version' = "" /\ fi' = 0 /\ tried' = <<>>
    /\ index' = NoIndex /\ entered' = ""
    /\ download_success' = FALSE /\ fprinted' = <<>> /\ fres' = NoResult

(***************************************************************************)
(* SpecProbe: the status probes.  The host state holds what they read.     *)
(***************************************************************************)
\* A text file: absent, present but not readable by the user, or readable
\* with its lines.
File(st, lines) == [st |-> st, lines |-> lines]
AbsentFile == File("absent", <<>>)
UnreadableFile == File("unreadable", <<>>)

EmacsAlias == "alias emacs=\"emacsclient -c -a emacs\""
BashrcLines == {EmacsAlias, "emacs() {", "export EDITOR=vi"}
XprofileLines == {"xset dpms 180 180 180", "xset dpms 600 600 600", "xrdb -merge"}
LogindLines == {"IdleAction=hibernate", "IdleActionSec=15min", "#IdleAction=ignore"}

\* Python's `m in line` on the strings above.
Contains(line, m) ==
    \/ m = line
    \/ m = "xset dpms" /\ line \in {"xset dpms 180 180 180", "xset dpms 600 600 600"}
    \/ m = "emacs()" /\ line = "emacs() {"
    \/ m = "emacs()" /\ line = "# emacs() lives in ~/.bash_functions"
    \/ m = "xset dpms" /\ line = "xset dpms 180 180 1800"
    \/ m = "xset dpms 180 180 180" /\ line = "xset dpms 180 180 1800"
    \/ m = "export PATH=~/.local/share/go/bin:$PATH"
           /\ line = "# export PATH=~/.local/share/go/bin:$PATH"
    \/ m = "pulseaudio --start" /\ line = "# pulseaudio --start"

\* `m in content` for the content of a file that was read.
Has(f, m) == \E i \in DOMAIN f.lines : Contains(f.lines[i], m)

FilesOver(alphabet) ==
    {AbsentFile, UnreadableFile}
    \cup {File("ok", ls) : ls \in SeqsUpTo(alphabet, MaxLines)}

Commands == {"emacs", "dmenu", "xrandr", "xset"}
DesktopFiles == {"firefox.desktop", "firefox-private.desktop", "emacs.desktop"}
\* glob('/usr/share/applications/*firefox*')
GlobFirefox(apps) == apps \cap {"firefox.desktop", "firefox-private.desktop"}

Systemctl(present, enabled, active) ==
    [present |-> present, enabled |-> enabled, active |-> active]

\* A host on which nothing is installed or configured.
BareHost ==
    [path |-> {}, service_file |-> FALSE, bashrc |-> AbsentFile,
     systemctl |-> Systemctl(FALSE, FALSE, FALSE), apps |-> {},
     udev_rule |-> FALSE, switch_script |-> "absent",
     xprofile |-> AbsentFile, logind |-> AbsentFile, xinitrc |-> AbsentFile]

SystemctlStates ==
    {Systemctl(FALSE, FALSE, FALSE)}
    \cup {Systemctl(TRUE, e, a) : e \in BOOLEAN, a \in BOOLEAN}

\* The host states the probes are run on: for each probe, every combination
\* of what that probe reads, the rest as on the bare host.
EmacsHosts ==
    {[BareHost EXCEPT !.path = p, !.service_file = sf, !.bashrc = b, !.systemctl = sc] :
        p \in {{}, {"emacs"}}, sf \in BOOLEAN, b \in FilesOver(BashrcLines),
        sc \in SystemctlStates}
FirefoxHosts ==
    {[BareHost EXCEPT !.path = p, !.apps = a] :
        p \in {{}, {"dmenu"}}, a \in SUBSET DesktopFiles}
DisplayportHosts ==
    {[BareHost EXCEPT !.path = p, !.udev_rule = u, !.switch_script = sw] :
        p \in {{}, {"xrandr"}}, u \in BOOLEAN, sw \in {"absent", "plain", "exec"}}
PowerHosts ==
    {[BareHost EXCEPT !.path = p, !.xprofile = x, !.logind = l] :
        p \in {{}, {"xset"}}, x \in FilesOver(XprofileLines), l \in FilesOver(LogindLines)}
ProbeHosts == EmacsHosts \cup FirefoxHosts \cup DisplayportHosts \cup PowerHosts

\* A probe's result: the status it returns ("raise" when an exception leaves
\* it) and the markers it looked at on the way.
PR(status, reads) == [status |-> status, reads |-> reads]

\* subprocess.run(['which', cmd]).returncode == 0
Which(h, cmd) == cmd \in h.path

check_emacs_server_status(h) ==
    IF ~Which(h, "emacs") THEN PR("N", {})
    ELSE IF ~h.service_file THEN PR("X", {"service_file"})
    ELSE IF h.bashrc.st = "absent" THEN PR("X", {"service_file", "bashrc"})
    ELSE IF h.bashrc.st = "unreadable" THEN PR("raise", {"service_file", "bashrc"})
    ELSE IF ~Has(h.bashrc, EmacsAlias) THEN PR("X", {"service_file", "bashrc"})
    ELSE IF ~h.systemctl.present THEN PR("X", {"service_file", "bashrc", "systemctl"})
    ELSE IF h.systemctl.enabled /\ h.systemctl.active
         THEN PR("O", {"service_file", "bashrc", "systemctl"})
         ELSE PR("X", {"service_file", "bashrc", "systemctl"})

check_firefox_private_status(h) ==
    IF ~Which(h, "dmenu") THEN PR("N", {})
    ELSE IF GlobFirefox(h.apps) = {} THEN PR("N", {})
    ELSE IF "firefox-private.desktop" \in h.apps
         THEN PR("O", {"private_desktop"})
         ELSE PR("X", {"private_desktop"})

\* A probe that looks at the markers before the prerequisite.
check_displayport_status_MarkersFirst(h) ==
    IF h.udev_rule /\ h.switch_script = "exec"
    THEN PR("O", {"udev_rule", "switch_script"})
    ELSE IF ~Which(h, "xrandr") THEN PR("N", {})
    ELSE PR("X", {"udev_rule", "switch_script"})

check_displayport_status(h) ==
    IF ~Which(h, "xrandr") THEN PR("N", {})
    ELSE IF h.udev_rule /\ h.switch_script # "absent"
         THEN IF h.switch_script = "exec"
              THEN PR("O", {"udev_rule", "switch_script"})
              ELSE PR("X", {"udev_rule", "switch_script"})
         ELSE PR("X", IF h.udev_rule THEN {"udev_rule", "switch_script"}
                      ELSE {"udev_rule"})

\* A probe that is satisfied with either marker.
check_power_management_status_Either(h) ==
    IF ~Which(h, "xset") THEN PR("N", {})
    ELSE IF h.xprofile.st = "unreadable" THEN PR("raise", {"xprofile"})
    ELSE IF \/ h.xprofile.st = "ok" /\ Has(h.xprofile, "xset dpms")
            \/ /\ h.logind.st = "ok"
               /\ Has(h.logind, "IdleAction=hibernate")
               /\ Has(h.logind, "IdleActionSec=15min")
         THEN PR("O", {"xprofile", "logind"})
         ELSE PR("X", {"xprofile", "logind"})

check_power_management_status(h) ==
    IF ~Which(h, "xset") THEN PR("N", {})
    ELSE IF h.xprofile.st = "unreadable" THEN PR("raise", {"xprofile"})
    ELSE LET has_xprofile_setting ==
                 h.xprofile.st = "ok" /\ Has(h.xprofile, "xset dpms")
             \* PermissionError on logind.conf is caught: the flag stays False
             has_hibernate_setting ==
                 /\ h.logind.st = "ok"
                 /\ Has(h.logind, "IdleAction=hibernate")
                 /\ Has(h.logind, "IdleActionSec=15min")
         IN  IF has_xprofile_setting /\ has_hibernate_setting
             THEN PR("O", {"xprofile", "logind"})
             ELSE IF has_xprofile_setting \/ has_hibernate_setting
                  THEN PR("X", {"xprofile", "logind"})
                  ELSE PR("X", {"xprofile", "logind"})

ProbeNames == {"emacs_server", "firefox_private", "displayport", "power_management"}

Probe(p, h) ==
    CASE p = "emacs_server"     -> check_emacs_server_status(h)
      [] p = "firefox_private"  -> check_firefox_private_status(h)
      [] p = "displayport"      -> check_displayport_status(h)
      [] p = "power_management" -> check_power_management_status(h)

NoProbeResult == PR("none", {})
\* A probe call as remembered: which probe, what it returned, the host then.
Call(p, r, h) == [probe |-> p, pres |-> r, host |-> h]
NoCall == Call("none", NoProbeResult, BareHost)
NoStatuses == [p \in ProbeNames |-> "none"]
ProbeParked ==
    /\ host = BareHost /\ probe = "none" /\ pres = NoProbeResult
    /\ before = NoCall /\ shown = NoStatuses

\* A probe that creates ~/.xprofile when it is missing.
RunProbe_Touching(p) ==
    /\ probe' = p
    /\ pres' = Probe(p, host)
    /\ before' = Call(probe, pres, host)
    /\ host' = IF host.xprofile.st = "absent"
               THEN [host EXCEPT !.xprofile = File("ok", <<>>)] ELSE host
    /\ UNCHANGED shown

\* One probe is called on the host as it is.
RunProbe(p) ==
    /\ probe' = p
    /\ pres' = Probe(p, host)
    /\ before' = Call(probe, pres, host)
    /\ UNCHANGED <<host, shown>>

(***************************************************************************)
(* What the setup functions leave on the host.                             *)
(***************************************************************************)
SetupNames ==
    {"setup_emacs_server", "setup_firefox_private",
     "setup_displayport_switching", "setup_power_management"}

\* The command whose absence makes the setup return at its first step.
SetupCommand(a) ==
    CASE a = "setup_emacs_server"          -> "emacs"
      [] a = "setup_firefox_private"       -> "dmenu"
      [] a = "setup_displayport_switching" -> "xrandr"
      [] a = "setup_power_management"      -> "xset"

\* The block setup_emacs_server adds to ~/.bashrc, by its first line.
EmacsFunction == "emacs() {"
\* The line setup_power_management adds to ~/.xprofile.
XsetLine == "xset dpms 180 180 180"

\* install_bluetuith: go_path_line, with ~ for the expanded home directory.
GoPathLine == "export PATH=~/.local/share/go/bin:$PATH"
\* install_ncpamixer: pulseaudio_line.
PulseaudioLine == "pulseaudio --start"

\* `if marker not in content: append`, or create the file when it is missing.
AppendUnlessHas(f, m, line) ==
    IF f.st = "absent" THEN File("ok", <<line>>)
    ELSE IF Has(f, m) THEN f
    ELSE File("ok", Append(f.lines, line))

\* str.startswith on the lines of logind.conf (after strip()).
IsIdleAction(line) == line \in {"IdleAction=hibernate", "#IdleAction=ignore"}
IsIdleActionSec(line) == line \in {"IdleActionSec=15min", "#IdleActionSec=30min"}

\* setup_power_management, lines 950-971: the new content of logind.conf.
RewriteLogind(lines) ==
    LET mapped == [i \in DOMAIN lines |->
                      IF IsIdleAction(lines[i]) THEN "IdleAction=hibernate"
                      ELSE IF IsIdleActionSec(lines[i]) THEN "IdleActionSec=15min"
                      ELSE lines[i]]
        action_set == \E i \in DOMAIN lines : IsIdleAction(lines[i])
        sec_set    == \E i \in DOMAIN lines :
                          ~IsIdleAction(lines[i]) /\ IsIdleActionSec(lines[i])
    IN  mapped \o (IF action_set THEN <<>> ELSE <<"IdleAction=hibernate">>)
               \o (IF sec_set THEN <<>> ELSE <<"IdleActionSec=15min">>)

\* The host after step n of setup a has succeeded on host h.
Writes(a, n, h) ==
    CASE a = "install_bluetuith" /\ n = "bashrc" ->
             [h EXCEPT !.bashrc = AppendUnlessHas(h.bashrc, GoPathLine, GoPathLine)]
      [] a = "install_ncpamixer" /\ n = "xinitrc" ->
             [h EXCEPT !.xinitrc = AppendUnlessHas(h.xinitrc, PulseaudioLine, PulseaudioLine)]
      [] a = "setup_emacs_server" /\ n = "service_file" ->
             [h EXCEPT !.service_file = TRUE]
      [] a = "setup_emacs_server" /\ n = "bashrc" ->
             [h EXCEPT !.bashrc = AppendUnlessHas(h.bashrc, "emacs()", EmacsFunction)]
      [] a = "setup_emacs_server" /\ n = "enable" ->
             [h EXCEPT !.systemctl.enabled = TRUE]
      [] a = "setup_emacs_server" /\ n = "start" ->
             [h EXCEPT !.systemctl.active = TRUE]
      [] a = "setup_firefox_private" /\ n = "desktop_tee" ->
             [h EXCEPT !.apps = h.apps \cup {"firefox-private.desktop"}]
      [] a = "setup_displayport_switching" /\ n = "udev_rule" ->
             [h EXCEPT !.udev_rule = TRUE]
      [] a = "setup_displayport_switching" /\ n = "script_tee" ->
             [h EXCEPT !.switch_script = IF h.switch_script = "exec" THEN "exec" ELSE "plain"]
      [] a = "setup_displayport_switching" /\ n = "script_chmod" ->
             [h EXCEPT !.switch_script = "exec"]
      [] a = "setup_power_management" /\ n = "xprofile" ->
             [h EXCEPT !.xprofile = AppendUnlessHas(h.xprofile, XsetLine, XsetLine)]
      [] a = "setup_power_management" /\ n = "logind_cp" ->
             [h EXCEPT !.logind = File("ok", RewriteLogind(h.logind.lines))]
      [] OTHER -> h

\* How step s of setup a can end on host h: the steps that look at the host
\* end as the host says, the others as any command can.
OutcomesOn(a, s, h) ==
    CASE s.n = "which" ->
             IF SetupCommand(a) \in h.path THEN {"ok"} ELSE {"nonzero"}
      [] s.n = "glob_firefox" ->
             IF GlobFirefox(h.apps) # {} THEN {"ok"} ELSE {"fail"}
      [] s.n = "logind_exists" ->
             IF h.logind.st # "absent" THEN {"ok"} ELSE {"fail"}
      [] s.n = "bashrc" ->
             IF h.bashrc.st = "unreadable" THEN {"oserror"} ELSE {"ok"}
      [] s.n = "xprofile" ->
             IF h.xprofile.st = "unreadable" THEN {"oserror"} ELSE {"ok"}
      [] s.n = "xinitrc" ->
             IF h.xinitrc.st = "unreadable" THEN {"oserror"} ELSE {"ok"}
      [] s.n = "logind_rewrite" /\ h.logind.st = "unreadable" -> {"oserror"}
      [] s.tool = "systemctl" ->
             IF h.systemctl.present THEN {"ok", "nonzero"} ELSE {"oserror"}
      [] OTHER -> StepOutcomes(s)

\* Every way setup a can run on from its step i on host h: how the call ends
\* and the host it leaves.
RECURSIVE RunFrom(_, _, _)
RunFrom(a, i, h) ==
    IF i > Len(Steps(a)) THEN {[res |-> "ok", host |-> h]}
    ELSE LET s == Steps(a)[i]
         IN  UNION {
                 LET e == StepEffect(s, o)
                 IN  CASE e = "next"  -> RunFrom(a, i + 1, IF o = "ok" THEN Writes(a, s.n, h) ELSE h)
                       [] e = "skip"  -> RunFrom(a, AfterBlock(Steps(a), i), h)
                       [] e = "abort" -> {[res |-> "fail", host |-> h]}
                       [] e = "raise" -> {[res |-> "raise", host |-> h]}
                       [] OTHER       -> {}
                 : o \in OutcomesOn(a, s, h) }

(***************************************************************************)
(* Spec: the menu loop of main() and handle_external_packages().           *)
(* A called install/setup function is summarised by Results: what it can   *)
(* return, or that an exception leaves it.                                 *)
(***************************************************************************)
PackageIds == {"0", "1", "2", "3", "4", "5"}
ExternalIds == {"1", "2"}
SettingsIds == {"1", "2", "3", "4"}

\* package_functions
package_functions(id) ==
    CASE id = "0" -> "install_basic_packages"
      [] id = "1" -> "install_dwm_dependencies"
      [] id = "2" -> "install_emacs"
      [] id = "3" -> "install_stow"
      [] id = "4" -> "install_utils"
      [] id = "5" -> "handle_external_packages"

\* external_functions
external_functions(id) ==
    CASE id = "1" -> "install_bluetuith"
      [] id = "2" -> "install_ncpamixer"

\* settings_functions
settings_functions(id) ==
    CASE id = "1" -> "setup_emacs_server"
      [] id = "2" -> "setup_firefox_private"
      [] id = "3" -> "setup_displayport_switching"
      [] id = "4" -> "setup_power_management"

\* What the operator can type.  A choice at the package menus is given by its
\* comma-separated fields; the settings menu takes the line as one string.
MainChoices == {"1", "2", "q", "Q", "x", " 1"}
Lists(fields) == {c \in SeqsUpTo(fields, MaxSel) : Len(c) >= 1}
\* Every list of up to MaxSel of the fields 0, 1, 5, x; every id alone; the
\* words b and all in their spellings, alone and as a field of a list.
PackageChoices ==
    Lists({"0", "1", "5", "x"})
    \cup {<<"2">>, <<"3">>, <<"4">>, <<" 1">>, <<"b">>, <<"B">>, <<"b ">>,
          <<"all">>, <<"ALL">>, <<"b", "0">>, <<"0", "all">>}
ExternalChoices ==
    Lists({"1", "2", "x"})
    \cup {<<" 1">>, <<"b">>, <<"B">>, <<"all">>, <<"ALL">>, <<"b", "1">>}
SettingsChoices == {"1", "2", "3", "4", "b", "B", "all", "ALL", "x", "1,2", " 1"}

\* A comparison that no line satisfies.
IsWord_Never(choice, w) == FALSE

\* choice == w, for choice = input(...).strip() and its .lower()
IsWord(choice, w) == Len(choice) = 1 /\ Lower(Strip(choice[1])) = w

\* [x.strip() for x in choice.split(',')]
Split(choice) == [i \in DOMAIN choice |-> Strip(choice[i])]

Entry(id, out) == [id |-> id, out |-> out]

\* A line read by input() at prompt `at`, as its comma-separated fields.
Read(at, line) == [at |-> at, line |-> line]
NoInput == Read("none", <<>>)

\* main(), lines 1164-1178: the index of the selection the for loop goes to
\* after selection i of n (n + 1: the loop is over).  No branch leaves the loop.
NextSelection_BreakOnFailure(i, n, failed) == IF failed THEN n + 1 ELSE i + 1

NextSelection(i, n, failed) == i + 1

\* A for loop that no failure leaves.
ExtNextSelection_NoBreak(i, n, failed) == i + 1

\* handle_external_packages(), lines 1118-1128: a failed install breaks.
ExtNextSelection(i, n, failed) == IF failed THEN n + 1 ELSE i + 1

\* show_settings_menu(), lines 1056-1059, runs the four probes: an exception
\* leaving one of them leaves show_settings_menu.
DisplayOutcomes ==
    {"shown"} \cup
    (IF \E h \in ProbeHosts : \E p \in ProbeNames : Probe(p, h).status = "raise"
     THEN {"raise"} ELSE {})

NavParked ==
    /\ menu = "none" /\ pc = "none" /\ selected = <<>> /\ idx = 0
    /\ any_failed = FALSE /\ report = <<>> /\ executed = <<>>
    /\ ext_selected = <<>> /\ ext_idx = 0 /\ ext_report = <<>> /\ ext_executed = <<>>
    /\ typed = NoInput

batchVars == <<selected, idx, any_failed, report, executed>>
extVars == <<ext_selected, ext_idx, ext_report, ext_executed>>

\* An exception leaves main(): the process ends with a traceback.
Crash(where) ==
    /\ menu' = "Crashed"
    /\ pc' = where

\* A main menu that opens the package menu on any unknown input.
MainInput_UnknownOpensPackages(c) ==
    /\ menu = "MainMenu" /\ pc = "input"
    /\ LET main_choice == Strip(c)
       IN  IF Lower(main_choice) = "q" THEN menu' = "Exit" /\ pc' = "done"
           ELSE IF main_choice = "2" THEN menu' = "SettingsMenu" /\ pc' = "display"
           ELSE menu' = "PackageMenu" /\ pc' = "input"
    /\ typed' = Read("main", <<c>>)
    /\ UNCHANGED <<batchVars, extVars>>

\* Lines 1145-1150, 1188, 1225-1226.
MainInput(c) ==
    /\ menu = "MainMenu" /\ pc = "input"
    /\ LET main_choice == Strip(c)
       IN  IF Lower(main_choice) = "q" THEN menu' = "Exit" /\ pc' = "done"
           ELSE IF main_choice = "1" THEN menu' = "PackageMenu" /\ pc' = "input"
           ELSE IF main_choice = "2" THEN menu' = "SettingsMenu" /\ pc' = "display"
           ELSE menu' = "MainMenu" /\ pc' = "input"
    /\ typed' = Read("main", <<c>>)
    /\ UNCHANGED <<batchVars, extVars>>

\* A package menu whose `all` leaves out the external packages.
PackageInput_AllSkipsExternal(choice) ==
    /\ menu = "PackageMenu" /\ pc = "input"
    /\ IF IsWord(choice, "b")
       THEN /\ menu' = "MainMenu" /\ pc' = "input"
            /\ UNCHANGED batchVars
       ELSE /\ selected' = IF IsWord(choice, "all")
                           THEN <<"0", "1", "2", "3", "4">>
                           ELSE Split(choice)
            /\ idx' = 1
            /\ any_failed' = FALSE
            /\ report' = <<>>
            /\ executed' = <<>>
            /\ pc' = "batch"
            /\ UNCHANGED menu
    /\ typed' = Read("package", choice)
    /\ UNCHANGED extVars

\* Lines 1153-1163: the choice at the package menu.
PackageInput(choice) ==
    /\ menu = "PackageMenu" /\ pc = "input"
    /\ IF IsWord(choice, "b")
       THEN /\ menu' = "MainMenu" /\ pc' = "input"
            /\ UNCHANGED batchVars
       ELSE /\ selected' = IF IsWord(choice, "all")
                           THEN <<"0", "1", "2", "3", "4", "5">>
                           ELSE Split(choice)
            /\ idx' = 1
            /\ any_failed' = FALSE
            /\ report' = <<>>
            /\ executed' = <<>>
            /\ pc' = "batch"
            /\ UNCHANGED menu
    /\ typed' = Read("package", choice)
    /\ UNCHANGED extVars

\* A loop end that always asks.
AfterLoop_AlwaysAsk(failed) == "ask"

\* Lines 1180-1186: after the for loop.
AfterLoop(failed) == IF failed THEN "ask" ELSE "enter"

\* A loop that prints a line for failures only.
Proceed_SilentSuccess(out) ==
    LET failed == any_failed \/ out \in {"failed", "invalid"}
        j == NextSelection(idx, Len(selected), out = "failed")
    IN  /\ report' = IF out = "ok" THEN report ELSE Append(report, Entry(selected[idx], out))
        /\ any_failed' = failed
        /\ idx' = j
        /\ pc' = IF j > Len(selected) THEN AfterLoop(failed) ELSE "batch"

\* The for loop of main() goes on after selection idx ended with `out`.
Proceed(out) ==
    LET failed == any_failed \/ out \in {"failed", "invalid"}
        j == NextSelection(idx, Len(selected), out = "failed")
    IN  /\ report' = Append(report, Entry(selected[idx], out))
        /\ any_failed' = failed
        /\ idx' = j
        /\ pc' = IF j > Len(selected) THEN AfterLoop(failed) ELSE "batch"

\* Lines 1165-1175: a registered id other than 5; its function runs.
PackageExecute(r) ==
    /\ menu = "PackageMenu" /\ pc = "batch"
    /\ selected[idx] \in PackageIds \ {"5"}
    /\ r \in Results(package_functions(selected[idx]))
    /\ executed' = Append(executed, selected[idx])
    /\ IF r = "raise"
       THEN Crash("action_raised") /\ UNCHANGED <<selected, idx, any_failed, report>>
       ELSE /\ Proceed(IF r = "ok" THEN "ok" ELSE "failed")
            /\ UNCHANGED <<menu, selected>>
    /\ UNCHANGED <<extVars, typed>>

\* Lines 1176-1178.
PackageInvalid ==
    /\ menu = "PackageMenu" /\ pc = "batch"
    /\ selected[idx] \notin PackageIds
    /\ Proceed("invalid")
    /\ UNCHANGED <<menu, selected, executed, extVars, typed>>

\* Lines 1167, 1101-1109: id 5 calls handle_external_packages, which shows
\* the external packages menu.
PackageEnterExternal ==
    /\ menu = "PackageMenu" /\ pc = "batch"
    /\ selected[idx] = "5"
    /\ executed' = Append(executed, "5")
    /\ menu' = "ExternalPackageMenu" /\ pc' = "input"
    /\ ext_selected' = <<>> /\ ext_idx' = 0 /\ ext_report' = <<>> /\ ext_executed' = <<>>
    /\ UNCHANGED <<selected, idx, any_failed, report, typed>>

\* A return from the external menu that lands in the main menu.
ExtReturn_ToMainMenu(ret) ==
    /\ menu' = "MainMenu" /\ pc' = "input"
    /\ ext_selected' = <<>> /\ ext_idx' = 0 /\ ext_report' = <<>> /\ ext_executed' = <<>>
    /\ UNCHANGED <<selected, executed, idx, any_failed, report>>

\* handle_external_packages returns ret to line 1167 (its locals are gone);
\* lines 1168-1175 follow.
ExtReturn(ret) ==
    /\ menu' = "PackageMenu"
    /\ Proceed(IF ret = "BACK" THEN "back" ELSE "ok")
    /\ ext_selected' = <<>> /\ ext_idx' = 0 /\ ext_report' = <<>> /\ ext_executed' = <<>>
    /\ UNCHANGED <<selected, executed>>

\* Lines 1109-1116: the choice at the external packages menu.
ExtInput(choice) ==
    /\ menu = "ExternalPackageMenu" /\ pc = "input"
    /\ IF IsWord(choice, "b")
       THEN ExtReturn("BACK")
       ELSE /\ ext_selected' = IF IsWord(choice, "all") THEN <<"1", "2">>
                               ELSE Split(choice)
            /\ ext_idx' = 1
            /\ ext_report' = <<>>
            /\ ext_executed' = <<>>
            /\ pc' = "batch"
            /\ UNCHANGED <<menu, batchVars>>
    /\ typed' = Read("external", choice)

\* The for loop of handle_external_packages goes on after a selection.
ExtProceed(out) ==
    LET j == ExtNextSelection(ext_idx, Len(ext_selected), out = "failed")
    IN  /\ ext_report' = Append(ext_report, Entry(ext_selected[ext_idx], out))
        /\ ext_idx' = j
        /\ pc' = IF j > Len(ext_selected) THEN "more" ELSE "batch"

\* Lines 1119-1126.
ExtExecute(r) ==
    /\ menu = "ExternalPackageMenu" /\ pc = "batch"
    /\ ext_selected[ext_idx] \in ExternalIds
    /\ r \in Results(external_functions(ext_selected[ext_idx]))
    /\ ext_executed' = Append(ext_executed, ext_selected[ext_idx])
    /\ IF r = "raise"
       THEN Crash("action_raised") /\ UNCHANGED <<ext_selected, ext_idx, ext_report>>
       ELSE /\ ExtProceed(IF r = "ok" THEN "ok" ELSE "failed")
            /\ UNCHANGED <<menu, ext_selected>>
    /\ UNCHANGED <<batchVars, typed>>

\* Lines 1127-1128.
ExtInvalid ==
    /\ menu = "ExternalPackageMenu" /\ pc = "batch"
    /\ ext_selected[ext_idx] \notin ExternalIds
    /\ ExtProceed("invalid")
    /\ UNCHANGED <<menu, ext_selected, ext_executed, batchVars, typed>>

\* Lines 1130-1134: "install more external packages?"
ExtMore(ans) ==
    /\ menu = "ExternalPackageMenu" /\ pc = "more"
    /\ IF Lower(Strip(ans)) # "y"
       THEN ExtReturn("True")
       ELSE pc' = "input" /\ UNCHANGED <<menu, batchVars, extVars>>
    /\ typed' = Read("more", <<ans>>)

\* A continue prompt whose decline returns to the menu that asked.
AskContinue_BackToOwner(m, ans) ==
    /\ menu = m /\ pc = "ask"
    /\ menu' = m /\ pc' = IF m = "SettingsMenu" THEN "display" ELSE "input"
    /\ typed' = Read("continue", <<ans>>)
    /\ UNCHANGED <<batchVars, extVars>>

\* Lines 1181-1184: "Continue despite errors?"
AskContinue(m, ans) ==
    /\ menu = m /\ pc = "ask"
    /\ IF Lower(Strip(ans)) # "y"
       THEN menu' = "MainMenu" /\ pc' = "input"
       ELSE menu' = m /\ pc' = IF m = "SettingsMenu" THEN "display" ELSE "input"
    /\ typed' = Read("continue", <<ans>>)
    /\ UNCHANGED <<batchVars, extVars>>

\* Lines 1185-1186: "Press Enter to continue..."
PressEnter(m) ==
    /\ menu = m /\ pc = "enter"
    /\ pc' = IF m = "SettingsMenu" THEN "display" ELSE "input"
    /\ typed' = Read("enter", <<"">>)
    /\ UNCHANGED <<menu, batchVars, extVars>>

PackageContinue(ans) == AskContinue("PackageMenu", ans)
PackageEnter == PressEnter("PackageMenu")
\* Lines 1219-1224.
SettingsContinue(ans) == AskContinue("SettingsMenu", ans)
SettingsEnter == PressEnter("SettingsMenu")

\* Lines 1191, 1054-1072: show_settings_menu computes the statuses.
SettingsDisplay(d) ==
    /\ menu = "SettingsMenu" /\ pc = "display"
    /\ d \in DisplayOutcomes
    /\ IF d = "raise" THEN Crash("probe_raised")
       ELSE pc' = "input" /\ UNCHANGED menu
    /\ UNCHANGED <<batchVars, extVars, typed>>

\* A settings loop that asks "Continue despite errors?" after an invalid option.
SettingsInput_InvalidAsks(c) ==
    /\ menu = "SettingsMenu" /\ pc = "input"
    /\ LET choice == Strip(c)
       IN  IF Lower(choice) = "b"
           THEN menu' = "MainMenu" /\ pc' = "input" /\ UNCHANGED batchVars
           ELSE IF Lower(choice) = "all" \/ choice \in SettingsIds
           THEN /\ selected' = IF Lower(choice) = "all" THEN <<"1", "2", "3", "4">>
                               ELSE <<choice>>
                /\ idx' = 1
                /\ any_failed' = FALSE
                /\ report' = <<>>
                /\ executed' = <<>>
                /\ pc' = "batch"
                /\ UNCHANGED menu
           ELSE pc' = "ask" /\ UNCHANGED <<menu, batchVars>>
    /\ typed' = Read("settings", <<c>>)
    /\ UNCHANGED extVars

\* Lines 1191-1204: the choice at the settings menu, one string.
SettingsInput(c) ==
    /\ menu = "SettingsMenu" /\ pc = "input"
    /\ LET choice == Strip(c)
       IN  IF Lower(choice) = "b"
           THEN menu' = "MainMenu" /\ pc' = "input" /\ UNCHANGED batchVars
           ELSE IF Lower(choice) = "all" \/ choice \in SettingsIds
           THEN /\ selected' = IF Lower(choice) = "all" THEN <<"1", "2", "3", "4">>
                               ELSE <<choice>>
                /\ idx' = 1
                /\ any_failed' = FALSE
                /\ report' = <<>>
                /\ executed' = <<>>
                /\ pc' = "batch"
                /\ UNCHANGED menu
           ELSE pc' = "display" /\ UNCHANGED <<menu, batchVars>>
    /\ typed' = Read("settings", <<c>>)
    /\ UNCHANGED extVars

\* Lines 1205-1213.  (The else branch of lines 1214-1216 cannot be reached:
\* every element of selected is a key of settings_functions.)
SettingsExecute(r) ==
    /\ menu = "SettingsMenu" /\ pc = "batch"
    /\ r \in Results(settings_functions(selected[idx]))
    /\ executed' = Append(executed, selected[idx])
    /\ IF r = "raise"
       THEN Crash("action_raised") /\ UNCHANGED <<selected, idx, any_failed, report>>
       ELSE /\ Proceed(IF r = "ok" THEN "ok" ELSE "failed")
            /\ UNCHANGED <<menu, selected>>
    /\ UNCHANGED <<extVars, typed>>

(***************************************************************************)
(* The settings menu on a host: show_settings_menu() with its probes, and  *)
(* the setup functions with what they leave on the host.                   *)
(***************************************************************************)
\* show_settings_menu(), lines 1056-1059, from a cache instead of the host.
Statuses_Cached(h) ==
    IF shown # NoStatuses THEN shown ELSE [p \in ProbeNames |-> Probe(p, h).status]

\* show_settings_menu(), lines 1056-1059: the four statuses it prints.
Statuses(h) == [p \in ProbeNames |-> Probe(p, h).status]

\* A host with every command installed and nothing set up.
StockHost ==
    [BareHost EXCEPT !.path = Commands,
                     !.apps = {"firefox.desktop"},
                     !.systemctl = Systemctl(TRUE, FALSE, FALSE),
                     !.bashrc = File("ok", <<"export EDITOR=vi">>),
                     !.logind = File("ok", <<"#IdleAction=ignore">>)]

\* The hosts the settings menu is run on.
SettingsHosts ==
    {BareHost, StockHost,
     [StockHost EXCEPT !.bashrc = File("ok", <<EmacsAlias>>)],
     [StockHost EXCEPT !.bashrc = UnreadableFile, !.service_file = TRUE]}

\* show_settings_menu() on the host: the probes run, the menu is printed.
ShowSettingsMenu ==
    LET st == Statuses(host)
        d  == IF \E p \in ProbeNames : st[p] = "raise" THEN "raise" ELSE "shown"
    IN  /\ SettingsDisplay(d)
        /\ shown' = IF d = "shown" THEN st ELSE shown
        /\ UNCHANGED host

\* show_settings_menu(), lines 1064-1067: the status printed beside each id.
StatusOf(id) ==
    CASE id = "1" -> "emacs_server"
      [] id = "2" -> "firefox_private"
      [] id = "3" -> "displayport"
      [] id = "4" -> "power_management"

\* A settings loop that skips a setting whose status on display is O.
SettingsSetup_SkipConfigured(r) ==
    IF menu = "SettingsMenu" /\ pc = "batch" /\ shown[StatusOf(selected[idx])] = "O"
    THEN /\ r = "ok"
         /\ Proceed("ok")
         /\ UNCHANGED <<menu, selected, executed, extVars, typed, host, shown>>
    ELSE /\ SettingsExecute(r)
         /\ \E o \in RunFrom(settings_functions(selected[idx]), 1, host) :
                o.res = r /\ host' = o.host
         /\ UNCHANGED shown

\* A setup function runs on the host.
SettingsSetup(r) ==
    /\ SettingsExecute(r)
    /\ \E o \in RunFrom(settings_functions(selected[idx]), 1, host) :
           o.res = r /\ host' = o.host
    /\ UNCHANGED shown

(***************************************************************************)
(* Startup: main() finds and parses package_list.txt before the menu loop. *)
(***************************************************************************)
\* The lines a package_list.txt is made of.
ManifestLines == {"[dev]", "[dwm]", "[]", "gcc", " gcc ", "make", ""}

\* line.startswith('[') and line.endswith(']'), on a stripped line
IsHeader(line) == line \in {"[dev]", "[dwm]", "[]"}

\* line[1:-1]
SectionName(line) ==
    CASE line = "[dev]" -> "dev"
      [] line = "[dwm]" -> "dwm"
      [] line = "[]"    -> ""

\* packages = {}
NoPackages == [x \in {} |-> <<>>]

\* current_section = None is <<>>, current_section = name is <<name>>.
\* The for loop of parse_package_file from line i on.
RECURSIVE ParseFrom(_, _, _, _)
ParseFrom(lines, i, pk, current_section) ==
    IF i > Len(lines) THEN pk
    ELSE LET line == Strip(lines[i])
         IN  IF line = ""
             THEN ParseFrom(lines, i + 1, pk, current_section)
             ELSE IF IsHeader(line)
             THEN LET name == SectionName(line)
                  IN  ParseFrom(lines, i + 1,
                                [x \in DOMAIN pk \cup {name} |->
                                    IF x = name THEN <<>> ELSE pk[x]],
                                <<name>>)
             ELSE IF current_section # <<>> /\ current_section[1] # ""
             THEN ParseFrom(lines, i + 1,
                            [pk EXCEPT ![current_section[1]] = Append(@, line)],
                            current_section)
             ELSE ParseFrom(lines, i + 1, pk, current_section)

\* parse_package_file(filename) on a file with these lines.
parse_package_file(lines) == ParseFrom(lines, 1, NoPackages, <<>>)

\* package_list.txt: missing, present but unreadable, or a text of lines.
Manifests ==
    {AbsentFile, UnreadableFile}
    \cup {File("ok", l) : l \in SeqsUpTo(ManifestLines, MaxManifest)}

NoManifest == File("none", <<>>)

StartParked ==
    /\ manifest = NoManifest /\ packages = NoPackages /\ exit_code = -1
    /\ runs = <<>>

\* main(), lines 1077-1089: sys.exit(1) when the file is missing or when
\* parse_package_file raises; the menu loop otherwise.
Startup ==
    /\ menu = "Start" /\ pc = "startup"
    /\ IF manifest.st = "absent"
       THEN menu' = "Exit" /\ pc' = "not_found" /\ exit_code' = 1 /\ UNCHANGED packages
       ELSE IF manifest.st = "unreadable"
       THEN menu' = "Exit" /\ pc' = "parse_error" /\ exit_code' = 1 /\ UNCHANGED packages
       ELSE /\ packages' = parse_package_file(manifest.lines)
            /\ menu' = "MainMenu" /\ pc' = "input"
            /\ UNCHANGED exit_code
    /\ UNCHANGED <<manifest, batchVars, extVars, typed>>

\* The menu loop of main(): when it is left by q, main() returns and the
\* interpreter ends with status 0 (lines 1147-1149, 1227-1228).
MainLoop(c) ==
    /\ MainInput(c)
    /\ exit_code' = IF menu' = "Exit" THEN 0 ELSE exit_code
    /\ UNCHANGED <<manifest, packages>>

(***************************************************************************)
(* The functions that add a line to a shell profile, run on a host.        *)
(***************************************************************************)
ProfileActions ==
    {"install_bluetuith", "install_ncpamixer", "setup_emacs_server",
     "setup_power_management"}

\* The line each of them adds (for setup_emacs_server the first line of the
\* function definition it adds).
MarkerLine(a) ==
    CASE a = "install_bluetuith"      -> GoPathLine
      [] a = "install_ncpamixer"      -> PulseaudioLine
      [] a = "setup_emacs_server"     -> EmacsFunction
      [] a = "setup_power_management" -> XsetLine

\* The file it adds the line to: ~/.bashrc, ~/.xinitrc or ~/.xprofile.
ProfileOf(a, h) ==
    CASE a = "install_bluetuith"      -> h.bashrc
      [] a = "install_ncpamixer"      -> h.xinitrc
      [] a = "setup_emacs_server"     -> h.bashrc
      [] a = "setup_power_management" -> h.xprofile

\* What the profiles can hold beforehand: the line itself, a line that only
\* contains its text, and unrelated lines.
ProfileBashrcLines ==
    {GoPathLine, "# export PATH=~/.local/share/go/bin:$PATH",
     EmacsFunction, "# emacs() lives in ~/.bash_functions", "export EDITOR=vi"}
ProfileXinitrcLines == {PulseaudioLine, "# pulseaudio --start", "exec dwm"}
ProfileXprofileLines == {XsetLine, "xset dpms 180 180 1800", "xrdb -merge"}
\* What /etc/systemd/logind.conf can hold: the two settings as
\* setup_power_management writes them, as the stock file comments them out,
\* and an unrelated line.
ProfileLogindLines ==
    {"IdleAction=hibernate", "#IdleAction=ignore", "IdleActionSec=15min",
     "#IdleActionSec=30min", "[Login]"}

ProfileHosts ==
    {[StockHost EXCEPT !.bashrc = f] : f \in FilesOver(ProfileBashrcLines)}
    \cup {[StockHost EXCEPT !.xinitrc = f] : f \in FilesOver(ProfileXinitrcLines)}
    \cup {[StockHost EXCEPT !.xprofile = f] : f \in FilesOver(ProfileXprofileLines)}
    \cup {[StockHost EXCEPT !.logind = f] : f \in FilesOver(ProfileLogindLines)}

Run(a, res, h) == [a |-> a, res |-> res, host |-> h]

\* One call of function a, from its first statement to its return.
RunAction(a) ==
    /\ Len(runs) < MaxRuns
    /\ \E o \in RunFrom(a, 1, host) :
           /\ host' = o.host
           /\ runs' = Append(runs, Run(a, o.res, host))

(***************************************************************************)
(* The specifications.                                                     *)
(***************************************************************************)
\* main() has parsed package_list.txt and shows the main menu.
Init ==
    /\ menu = "MainMenu" /\ pc = "input" /\ selected = <<>> /\ idx = 0
    /\ any_failed = FALSE /\ report = <<>> /\ executed = <<>>
    /\ ext_selected = <<>> /\ ext_idx = 0 /\ ext_report = <<>> /\ ext_executed = <<>>
    /\ typed = NoInput
    /\ ActionParked /\ FetchParked /\ ProbeParked /\ StartParked

Next ==
    \/ \E c \in MainChoices : MainInput(c) /\ UNCHANGED <<actionVars, fetchVars, probeVars, startVars, runs>>
    \/ \E c \in PackageChoices : PackageInput(c) /\ UNCHANGED <<actionVars, fetchVars, probeVars, startVars, runs>>
    \/ \E r \in {"ok", "fail", "raise"} : PackageExecute(r) /\ UNCHANGED <<actionVars, fetchVars, probeVars, startVars, runs>>
    \/ PackageInvalid /\ UNCHANGED <<actionVars, fetchVars, probeVars, startVars, runs>>
    \/ PackageEnterExternal /\ UNCHANGED <<actionVars, fetchVars, probeVars, startVars, runs>>
    \/ \E c \in ExternalChoices : ExtInput(c) /\ UNCHANGED <<actionVars, fetchVars, probeVars, startVars, runs>>
    \/ \E r \in {"ok", "fail", "raise"} : ExtExecute(r) /\ UNCHANGED <<actionVars, fetchVars, probeVars, startVars, runs>>
    \/ ExtInvalid /\ UNCHANGED <<actionVars, fetchVars, probeVars, startVars, runs>>
    \/ \E a \in Answers : ExtMore(a) /\ UNCHANGED <<actionVars, fetchVars, probeVars, startVars, runs>>
    \/ \E a \in Answers : PackageContinue(a) /\ UNCHANGED <<actionVars, fetchVars, probeVars, startVars, runs>>
    \/ PackageEnter /\ UNCHANGED <<actionVars, fetchVars, probeVars, startVars, runs>>
    \/ \E d \in {"shown", "raise"} : SettingsDisplay(d) /\ UNCHANGED <<actionVars, fetchVars, probeVars, startVars, runs>>
    \/ \E c \in SettingsChoices : SettingsInput(c) /\ UNCHANGED <<actionVars, fetchVars, probeVars, startVars, runs>>
    \/ \E r \in {"ok", "fail", "raise"} : SettingsExecute(r) /\ UNCHANGED <<actionVars, fetchVars, probeVars, startVars, runs>>
    \/ \E a \in Answers : SettingsContinue(a) /\ UNCHANGED <<actionVars, fetchVars, probeVars, startVars, runs>>
    \/ SettingsEnter /\ UNCHANGED <<actionVars, fetchVars, probeVars, startVars, runs>>

Spec == Init /\ [][Next]_vars

InitAction == NavParked /\ ActionParked /\ FetchParked /\ ProbeParked /\ StartParked

NextAction ==
    \/ \E a \in ActionNames : Invoke(a) /\ UNCHANGED <<fetchVars, probeVars, startVars, runs>>
    \/ \E o \in AllOutcomes : RunStep(o) /\ UNCHANGED <<navVars, fetchVars, probeVars, startVars, runs>>
    \/ \E a \in Answers : AnswerProceed(a) /\ UNCHANGED <<fetchVars, probeVars, startVars, runs>>
    \/ Return /\ UNCHANGED <<fetchVars, probeVars, startVars, runs>>

SpecAction == InitAction /\ [][NextAction]_vars

InitFetch == NavParked /\ ActionParked /\ FetchParked /\ ProbeParked /\ StartParked

NextFetch ==
    \/ \E ix \in Indexes : \E line \in VersionInputs : FetchStart(ix, line) /\ UNCHANGED <<navVars, actionVars, probeVars, startVars, runs>>
    \/ \E o \in AttemptOutcomes : Attempt(o) /\ UNCHANGED <<navVars, actionVars, probeVars, startVars, runs>>
    \/ FetchReset /\ UNCHANGED <<navVars, actionVars, probeVars, startVars, runs>>

SpecFetch == InitFetch /\ [][NextFetch]_vars

InitProbe ==
    /\ NavParked /\ ActionParked /\ FetchParked
    /\ host \in ProbeHosts /\ probe = "none" /\ pres = NoProbeResult
    /\ before = NoCall /\ shown = NoStatuses
    /\ StartParked

NextProbe ==
    \E p \in ProbeNames : RunProbe(p) /\ UNCHANGED <<navVars, actionVars, fetchVars, startVars, runs>>

SpecProbe == InitProbe /\ [][NextProbe]_vars

InitSettings ==
    /\ menu = "MainMenu" /\ pc = "input" /\ selected = <<>> /\ idx = 0
    /\ any_failed = FALSE /\ report = <<>> /\ executed = <<>>
    /\ ext_selected = <<>> /\ ext_idx = 0 /\ ext_report = <<>> /\ ext_executed = <<>>
    /\ typed = NoInput
    /\ ActionParked /\ FetchParked
    /\ host \in SettingsHosts /\ probe = "none" /\ pres = NoProbeResult
    /\ before = NoCall /\ shown = NoStatuses
    /\ StartParked

NextSettings ==
    \/ \E c \in {"2", "q", "x"} : MainInput(c) /\ UNCHANGED <<actionVars, fetchVars, probeVars, startVars, runs>>
    \/ ShowSettingsMenu /\ UNCHANGED <<actionVars, fetchVars, probe, pres, before, startVars, runs>>
    \/ \E c \in SettingsChoices : SettingsInput(c) /\ UNCHANGED <<actionVars, fetchVars, probeVars, startVars, runs>>
    \/ \E r \in {"ok", "fail", "raise"} : SettingsSetup(r) /\ UNCHANGED <<actionVars, fetchVars, probe, pres, before, startVars, runs>>
    \/ \E a \in Answers : SettingsContinue(a) /\ UNCHANGED <<actionVars, fetchVars, probeVars, startVars, runs>>
    \/ SettingsEnter /\ UNCHANGED <<actionVars, fetchVars, probeVars, startVars, runs>>

SpecSettings == InitSettings /\ [][NextSettings]_vars

InitStartup ==
    /\ menu = "Start" /\ pc = "startup" /\ selected = <<>> /\ idx = 0
    /\ any_failed = FALSE /\ report = <<>> /\ executed = <<>>
    /\ ext_selected = <<>> /\ ext_idx = 0 /\ ext_report = <<>> /\ ext_executed = <<>>
    /\ typed = NoInput
    /\ ActionParked /\ FetchParked /\ ProbeParked
    /\ manifest \in Manifests /\ packages = NoPackages /\ exit_code = -1
    /\ runs = <<>>

NextStartup ==
    \/ Startup /\ UNCHANGED <<actionVars, fetchVars, probeVars, runs>>
    \/ \E c \in MainChoices : MainLoop(c) /\ UNCHANGED <<actionVars, fetchVars, probeVars, runs>>

SpecStartup == InitStartup /\ [][NextStartup]_vars

InitProfile ==
    /\ NavParked /\ ActionParked /\ FetchParked
    /\ host \in ProfileHosts /\ probe = "none" /\ pres = NoProbeResult
    /\ before = NoCall /\ shown = NoStatuses
    /\ StartParked

NextProfile ==
    \E a \in ProfileActions :
        RunAction(a) /\ UNCHANGED <<navVars, actionVars, fetchVars, probe, pres, before, shown, startVars>>

SpecProfile == InitProfile /\ [][NextProfile]_vars

(***************************************************************************)
(* Properties of the batch loop of the package menu (Spec).                *)
(***************************************************************************)
\* A batch submitted at the package menu is running or has just ended.
InPackageBatch ==
    \/ menu = "PackageMenu" /\ pc \in {"batch", "ask", "enter"}
    \/ menu = "ExternalPackageMenu"

\* The for loop of the package batch is over.
PackageBatchOver == menu = "PackageMenu" /\ pc \in {"ask", "enter"}

\* C1, as stated: once an action of the batch has returned Failure, no later
\* selected id is executed or reported; the batch is at the continue prompt
\* (within a batch the operator cannot have chosen to continue: the prompt
\* comes after the loop only).
C1_StopsAtFirstFailure ==
    InPackageBatch =>
        \A i \in DOMAIN report :
            report[i].out = "failed" =>
                i = Len(report) /\ menu = "PackageMenu" /\ pc = "ask"

\* C1, amended: a Failure does not stop the batch.  The index of the loop is
\* always one past the ids reported, and the continue prompt (or the Enter
\* prompt) is reached only when every selected id has been processed.
C1_FailureDoesNotStopBatch ==
    /\ InPackageBatch /\ menu = "PackageMenu" /\ pc = "batch" =>
           idx = Len(report) + 1 /\ idx <= Len(selected)
    /\ PackageBatchOver =>
           /\ Len(report) = Len(selected)
           /\ \A i \in DOMAIN report : report[i].id = selected[i]
           /\ (pc = "ask") = (\E i \in DOMAIN report : report[i].out \in {"failed", "invalid"})

\* A batch in which an id ran successfully after another id had failed.
C1_Witness ==
    /\ PackageBatchOver
    /\ \E i, j \in DOMAIN report :
           i < j /\ report[i].out = "failed" /\ report[j].out = "ok"

\* C2, as stated: a batch of registered ids ends with exactly one outcome,
\* Success or Failure, per id, in the order selected.
C2_OneOutcomePerId ==
    PackageBatchOver /\ Range(selected) \subseteq PackageIds =>
        /\ Len(report) = Len(selected)
        /\ \A i \in DOMAIN report :
               report[i].id = selected[i] /\ report[i].out \in {"ok", "failed"}

\* C2, amended: the ids are processed in the order given, and each processed
\* id gets exactly one outcome, Success or Failure, in that order, except id 5
\* when the external menu was left with b: it gets no outcome.
C2_OneOutcomePerIdExceptBack ==
    InPackageBatch /\ Range(selected) \subseteq PackageIds =>
        /\ Len(report) <= Len(selected)
        /\ \A i \in DOMAIN report :
               /\ report[i].id = selected[i]
               /\ \/ report[i].out \in {"ok", "failed"}
                  \/ report[i].id = "5" /\ report[i].out = "back"
        /\ executed = SubSeq(selected, 1, Len(executed))
        /\ Len(executed) \in {Len(report), Len(report) + 1}
        /\ PackageBatchOver => Len(report) = Len(selected) /\ executed = selected

\* A batch of two registered ids over, the first of them id 5 left with b.
C2_Witness ==
    /\ PackageBatchOver
    /\ Len(selected) = 2
    /\ Range(selected) \subseteq PackageIds
    /\ report[1] = Entry("5", "back")
    /\ report[2].out = "failed"

\* C3, as stated: an id that is not in the registry executes nothing and is
\* recorded as a failure.  At the package menu the record is any_failed; the
\* external menu can record a failure only in what handle_external_packages
\* returns, which main() reports for id 5.
C3_UnknownIdIsFailure ==
    [][ /\ (menu = "PackageMenu" /\ pc = "batch" /\ selected[idx] \notin PackageIds)
            => executed' = executed /\ any_failed'
        /\ (menu = "ExternalPackageMenu" /\ pc = "batch"
            /\ ext_selected[ext_idx] \notin ExternalIds)
            => ext_executed' = ext_executed
        /\ (menu = "ExternalPackageMenu" /\ pc = "more" /\ menu' = "PackageMenu"
            /\ \E i \in DOMAIN ext_report : ext_report[i].out = "invalid")
            => report'[Len(report')].out = "failed" /\ any_failed'
      ]_vars

(***************************************************************************)
(* Properties of the install/setup functions (SpecAction).                 *)
(***************************************************************************)
StepOf(r) == Steps(act)[r.i]

\* C4, as stated: when sudo or systemctl cannot be started, the function
\* returns Failure; no exception leaves it.
C4_AbsentToolIsFailure ==
    \A i \in DOMAIN ran :
        ran[i].out = "oserror" /\ StepOf(ran[i]).tool \in {"sudo", "systemctl"}
            => i = Len(ran) /\ ares.kind = "fail"

CompositeActions ==
    {"install_dwm_dependencies", "install_emacs", "install_stow",
     "install_bluetuith", "install_ncpamixer", "setup_emacs_server",
     "setup_displayport_switching", "setup_power_management"}

\* C5, as stated (for steps that fail with a non-zero exit status): the first
\* failing step is the last step run, and the function returns Failure with
\* that step's diagnostic.
C5_FirstFailureAborts ==
    act \in CompositeActions =>
        \A i \in DOMAIN ran :
            ran[i].out = "nonzero" =>
                i = Len(ran) /\ ares = Failure(StepOf(ran[i]).diag)

\* The steps whose failure the code only warns about.
WarnOnly ==
    {<<"install_emacs", "latest_version">>,
     <<"install_bluetuith", "bashrc">>, <<"install_ncpamixer", "xinitrc">>,
     <<"setup_emacs_server", "wrapper_tee">>, <<"setup_emacs_server", "wrapper_chmod">>,
     <<"setup_displayport_switching", "boot_tee">>,
     <<"setup_displayport_switching", "boot_reload">>,
     <<"setup_displayport_switching", "boot_enable">>,
     <<"setup_power_management", "xset_now">>}

\* The warn-only steps that are Python code under except Exception.
UnderExceptException ==
    {<<"install_emacs", "latest_version">>,
     <<"install_bluetuith", "bashrc">>, <<"install_ncpamixer", "xinitrc">>}

\* The steps whose exit status the code does not look at.
StatusIgnored ==
    {<<"install_emacs", "nproc_make">>, <<"install_emacs", "nproc_check">>}

\* The step after whose failure the operator is asked whether to go on.
AskedAbout == {<<"install_emacs", "make_check">>}

\* C5, amended: a failing step that is not one of the tolerated ones is the
\* last step run; a non-zero exit or failed test makes the function return
\* Failure with that step's diagnostic (a tool that cannot be started does so
\* only under except Exception, and raises otherwise).  A step the code only
\* warns about does not end the function when it exits non-zero (or, for the
\* file updates and the version lookup, raises any exception): the steps
\* after its try block run.  A step whose status is ignored is followed by the
\* next step.  After a failing make check the operator is asked, and the next
\* step runs on y, Failure is returned otherwise.
C5_FatalFailureAborts ==
    act \in CompositeActions =>
        \A i \in DOMAIN ran :
            LET s == StepOf(ran[i])
                k == <<act, s.n>>
                last == /\ i = Len(ran)
                        /\ \/ ran[i].out = "nonzero"
                           \/ ran[i].out = "oserror" /\ k \in UnderExceptException
            IN  ran[i].out # "ok" =>
                /\ k \notin WarnOnly \cup StatusIgnored \cup AskedAbout =>
                     /\ i = Len(ran)
                     /\ ares.kind \in {"fail", "raise"}
                     /\ ares.kind = "fail" => ares.err = s.diag
                     /\ ran[i].out \in {"nonzero", "fail"} => ares.kind = "fail"
                     /\ ares.kind = "raise" => s.catch # "exc"
                /\ k \in WarnOnly /\ last =>
                     /\ ares.kind \in {"none", "ok"}
                     /\ apc > ran[i].i
                     /\ apc <= Len(Steps(act)) => Steps(act)[apc].blk # s.blk
                /\ k \in StatusIgnored /\ last =>
                     ares.kind = "none" /\ apc = ran[i].i + 1
                /\ k \in AskedAbout /\ last =>
                     \/ ares.kind = "ask"
                     \/ ares.kind = "none" /\ apc = ran[i].i + 1
                     \/ ares = Failure(s.diag)

\* setup_displayport_switching returned Failure at its fourth step, after
\* three steps that succeeded.
C5_Witness ==
    /\ act = "setup_displayport_switching"
    /\ Len(ran) = 4
    /\ \A i \in 1..3 : ran[i].out = "ok"
    /\ ran[4].out = "nonzero"
    /\ ares = Failure(<<"Failed to make script executable", "e">>)

(***************************************************************************)
(* Properties of the download loop of install_emacs (SpecFetch).           *)
(***************************************************************************)
\* C6: the mirrors are tried one at a time in the order of the list, each at
\* most once; the loop stops at the first mirror that succeeds; the download
\* fails only when every mirror of the list has been tried and has failed.
C6_MirrorsInOrderUntilSuccess ==
    fpc # "idle" =>
        LET ms == mirrors(version)
        IN  /\ Len(tried) <= Len(ms)
            /\ \A i \in DOMAIN tried : tried[i].url = ms[i]
            /\ \A i \in DOMAIN tried :
                   tried[i].out.st = "ok" =>
                       i = Len(tried) /\ fpc = "done" /\ fres.kind = "downloaded"
            /\ fpc = "loop" => fi = Len(tried) + 1 /\ fi <= Len(ms)
            /\ fres.kind = "fail" =>
                   /\ Len(tried) = Len(ms)
                   /\ \A i \in DOMAIN tried : tried[i].out.st = "nonzero"
            /\ fres.kind = "downloaded" =>
                   tried # <<>> /\ tried[Len(tried)].out.st = "ok"

\* The download succeeded from the third mirror after two mirrors failed.
C6_Witness ==
    /\ fres.kind = "downloaded"
    /\ Len(tried) = 3
    /\ tried[1].out.st = "nonzero" /\ tried[2].out.st = "nonzero"
    /\ tried[3].url.host = "ftp.jaist.ac.jp"

\* C7, as stated: the failure returned when every mirror failed carries the
\* sources attempted and the error of the last of them.
C7_FailureCarriesSources ==
    fres.kind = "fail" =>
        /\ \A i \in DOMAIN tried : mirror_name(tried[i].url) \in Range(fres.err)
        /\ ToString(tried[Len(tried)].out.rc) \in Range(fres.err)

\* The lines printed about failed attempts, in order.
FailedFromLines == SelectSeq(fprinted, LAMBDA l : l.text = "Failed from")

\* C7, amended: the failure returned when every mirror failed is the fixed
\* text; the source and exit status of each failed attempt are only printed,
\* one line per attempt, in the order of the attempts.
C7_FailureIsFixedText ==
    fres.kind = "fail" =>
        /\ fres.err = <<"Failed to download Emacs from all mirrors">>
        /\ Len(FailedFromLines) = Len(tried)
        /\ \A i \in DOMAIN tried :
               /\ FailedFromLines[i].mirror = mirror_name(tried[i].url)
               /\ FailedFromLines[i].rc = tried[i].out.rc

\* Every mirror failed, the last of them with exit status 8.
C7_Witness ==
    /\ fres.kind = "fail"
    /\ Len(tried) = Len(MirrorHosts)
    /\ tried[Len(tried)].out.rc = 8
    /\ tried[1].out.rc = 4

(***************************************************************************)
(* Properties of the status probes (SpecProbe).                            *)
(***************************************************************************)
\* The command a probe looks for first.
Prerequisite(p) ==
    CASE p = "emacs_server"     -> "emacs"
      [] p = "firefox_private"  -> "dmenu"
      [] p = "displayport"      -> "xrandr"
      [] p = "power_management" -> "xset"

\* C8: when the command a setting rests on is not installed, the probe
\* returns Unavailable, whatever markers are present, and it looks at no
\* marker.
C8_UnavailableFirst ==
    probe # "none" /\ Prerequisite(probe) \notin host.path =>
        pres.status = "N" /\ pres.reads = {}

\* The power probe on a host that has both markers but no xset.
C8_Witness ==
    /\ probe = "power_management"
    /\ "xset" \notin host.path
    /\ host.xprofile.st = "ok" /\ Has(host.xprofile, "xset dpms")
    /\ host.logind.st = "ok" /\ Has(host.logind, "IdleAction=hibernate")
    /\ Has(host.logind, "IdleActionSec=15min")
    /\ pres.status = "N"

\* What a probe needs before it looks at markers: its command, and for the
\* Firefox entry a Firefox desktop file as well.
PrerequisitesPresent(p, h) ==
    /\ Prerequisite(p) \in h.path
    /\ p = "firefox_private" => GlobFirefox(h.apps) # {}

\* Every completion marker of a setting is present on the host.
MarkersHold(p, h) ==
    CASE p = "emacs_server" ->
             /\ h.service_file
             /\ h.bashrc.st = "ok"
             /\ \E i \in DOMAIN h.bashrc.lines : h.bashrc.lines[i] = EmacsAlias
             /\ h.systemctl.present /\ h.systemctl.enabled /\ h.systemctl.active
      [] p = "firefox_private" -> "firefox-private.desktop" \in h.apps
      [] p = "displayport" -> h.udev_rule /\ h.switch_script = "exec"
      [] p = "power_management" ->
             /\ h.xprofile.st = "ok"
             /\ \E i \in DOMAIN h.xprofile.lines :
                    h.xprofile.lines[i] \in {"xset dpms 180 180 180", "xset dpms 600 600 600"}
             /\ h.logind.st = "ok"
             /\ {"IdleAction=hibernate", "IdleActionSec=15min"} \subseteq Range(h.logind.lines)

\* C9: with the prerequisite present, a probe that returns returns Configured
\* exactly when every marker of the setting is present, and NotConfigured
\* otherwise (also when only some of the markers are present).
C9_ConfiguredIffAllMarkers ==
    probe # "none" /\ PrerequisitesPresent(probe, host) /\ pres.status # "raise" =>
        /\ pres.status \in {"O", "X"}
        /\ pres.status = "O" <=> MarkersHold(probe, host)

\* The power probe on a host with xset and the xprofile line but no hibernate
\* setting.
C9_Witness ==
    /\ probe = "power_management"
    /\ "xset" \in host.path
    /\ host.xprofile.st = "ok" /\ Has(host.xprofile, "xset dpms")
    /\ host.logind.st = "ok" /\ ~Has(host.logind, "IdleAction=hibernate")
    /\ Has(host.logind, "IdleActionSec=15min")
    /\ pres.status = "X"

\* C10, as stated: no exception leaves a probe; a file it cannot read makes
\* it return NotConfigured or Unavailable.
C10_ProbeNeverRaises ==
    probe # "none" => pres.status \in {"O", "X", "N"}

IsB(line) == line \in {<<"b">>, <<"B">>, <<"b ">>}
IsAll(line) == line \in {<<"all">>, <<"ALL">>}
IsYes(line) == line \in {<<"y">>, <<"Y">>}

\* C12: from the main menu, 1 opens the package menu, 2 the settings menu,
\* q ends the program, and any other line leaves the main menu displayed;
\* none of these runs an action.
C12_MainMenuTransitions ==
    [][ menu = "MainMenu" /\ pc = "input" =>
            /\ typed'.at = "main"
            /\ executed' = executed /\ ext_executed' = ext_executed
            /\ LET c == typed'.line[1]
               IN  CASE c \in {"1", " 1"} -> menu' = "PackageMenu" /\ pc' = "input"
                     [] c = "2"          -> menu' = "SettingsMenu" /\ pc' = "display"
                     [] c \in {"q", "Q"} -> menu' = "Exit"
                     [] OTHER            -> menu' = "MainMenu" /\ pc' = "input"
      ]_vars

\* The main menu is displayed again after the unknown input x.
C12_Witness ==
    typed = Read("main", <<"x">>) /\ menu = "MainMenu" /\ pc = "input"

\* Some id of the batch was reported as failed or as unknown.
SomeFailed == \E i \in DOMAIN report : report[i].out \in {"failed", "invalid"}

\* C13: after a batch of the package menu the continue prompt comes exactly
\* when some selected id was reported as failed (an unknown id counts); an
\* answer other than y leads to the main menu; after y, and after the Enter
\* prompt of a batch without failure, the package menu is displayed again.
C13_ContinuePromptIffFailure ==
    /\ [](PackageBatchOver => ((pc = "ask") <=> SomeFailed))
    /\ [][ /\ menu = "PackageMenu" /\ pc = "ask" =>
               /\ typed'.at = "continue"
               /\ IF IsYes(typed'.line)
                  THEN menu' = "PackageMenu" /\ pc' = "input"
                  ELSE menu' = "MainMenu" /\ pc' = "input"
           /\ menu = "PackageMenu" /\ pc = "enter" =>
               menu' = "PackageMenu" /\ pc' = "input"
         ]_vars

\* The package menu is displayed again after y at the continue prompt.
C13_Witness ==
    /\ typed = Read("continue", <<"y">>)
    /\ menu = "PackageMenu" /\ pc = "input"
    /\ SomeFailed

\* An action of the package batch returned Failure.
ActionFailed == \E i \in DOMAIN report : report[i].out = "failed"

\* C14, as stated: after a failed package action, n at the continue prompt
\* returns to the package menu.
C14_DeclineReturnsToPackageMenu ==
    [][ ( /\ menu = "PackageMenu" /\ pc = "ask" /\ ActionFailed
          /\ typed'.at = "continue" /\ typed'.line = <<"n">> )
            => menu' = "PackageMenu"
      ]_vars

\* C14, amended: after a failed package action, any answer but y at the
\* continue prompt leads to the main menu; no action runs and the record of
\* what ran stays as it is.
C14_DeclineReturnsToMainMenu ==
    [][ ( /\ menu = "PackageMenu" /\ pc = "ask" /\ ActionFailed
          /\ typed'.at = "continue" /\ ~IsYes(typed'.line) )
            => /\ menu' = "MainMenu" /\ pc' = "input"
               /\ UNCHANGED <<selected, executed, report, ext_executed>>
      ]_vars

\* The main menu after n, with one action of the batch done and one failed.
C14_Witness ==
    /\ typed = Read("continue", <<"n">>)
    /\ menu = "MainMenu" /\ pc = "input"
    /\ \E i, j \in DOMAIN report : report[i].out = "ok" /\ report[j].out = "failed"

\* C15, as stated: as long as b is the last line read at a sub-menu (the
\* parent menu has not read a line since), no action is invoked.
C15_NothingRunsAfterB ==
    [][ ( /\ typed.at \in {"package", "external", "settings"} /\ IsB(typed.line)
          /\ typed' = typed )
            => executed' = executed /\ ext_executed' = ext_executed
      ]_vars

\* C15, amended: b itself invokes no action.  At the package and settings
\* menus it leads straight to the main menu.  At the external menu it returns
\* to the package batch that invoked id 5, which goes on with the ids selected
\* after 5 before the package menu is displayed again.  An action is invoked
\* only by the for loop of a submitted selection.
C15_BInvokesNoAction ==
    [][ /\ ( /\ pc = "input" /\ menu \in {"PackageMenu", "SettingsMenu"}
             /\ typed'.at \in {"package", "settings"} /\ IsB(typed'.line) )
            => /\ menu' = "MainMenu" /\ pc' = "input"
               /\ executed' = executed /\ ext_executed' = ext_executed
        /\ ( /\ pc = "input" /\ menu = "ExternalPackageMenu"
             /\ typed'.at = "external" /\ IsB(typed'.line) )
            => /\ menu' = "PackageMenu"
               /\ executed' = executed /\ ext_executed' = <<>>
               /\ idx' = idx + 1
               /\ pc' = IF idx < Len(selected) THEN "batch"
                        ELSE IF any_failed THEN "ask" ELSE "enter"
        /\ Len(executed') > Len(executed)
            => pc = "batch" /\ executed' = Append(executed, selected[idx])
        /\ Len(ext_executed') > Len(ext_executed)
            => /\ menu = "ExternalPackageMenu" /\ pc = "batch"
               /\ ext_executed' = Append(ext_executed, ext_selected[ext_idx])
      ]_vars

\* b was typed at the external menu and the package batch goes on.
C15_Witness ==
    /\ typed = Read("external", <<"b">>)
    /\ menu = "PackageMenu" /\ pc = "batch"
    /\ report = <<Entry("5", "back")>>

\* C16: at the package menu `all` selects the ids 0 to 5, each once, in that
\* order, and they are invoked in that order; b leads to the main menu and
\* invokes nothing.
C16_AllInRegistryOrder ==
    /\ [][ menu = "PackageMenu" /\ pc = "input" /\ typed'.at = "package" =>
               /\ IsAll(typed'.line) =>
                      /\ selected' = <<"0", "1", "2", "3", "4", "5">>
                      /\ idx' = 1 /\ executed' = <<>>
                      /\ menu' = "PackageMenu" /\ pc' = "batch"
               /\ IsB(typed'.line) =>
                      /\ menu' = "MainMenu" /\ pc' = "input"
                      /\ UNCHANGED <<selected, executed, report, ext_executed>>
         ]_vars
    /\ [](typed.at = "package" /\ IsAll(typed.line) /\ menu \in {"PackageMenu", "ExternalPackageMenu"} =>
               executed = SubSeq(<<"0", "1", "2", "3", "4", "5">>, 1, Len(executed)))

\* `all` was typed and the ids 0, 1 and 2 have been invoked so far.
C16_Witness ==
    /\ typed = Read("package", <<"all">>)
    /\ executed = <<"0", "1", "2">>
    /\ menu = "PackageMenu" /\ pc = "batch"

\* C17: the external menu is entered only from the package batch, when the
\* id the loop is at is 5; b at the external menu returns to the package
\* menu's loop.
C17_ExternalOnlyThroughFive ==
    /\ [][ /\ (menu' = "ExternalPackageMenu" /\ menu # "ExternalPackageMenu")
               => /\ menu = "PackageMenu" /\ pc = "batch" /\ selected[idx] = "5"
                  /\ executed' = Append(executed, "5")
                  /\ pc' = "input"
           /\ ( /\ menu = "ExternalPackageMenu" /\ pc = "input"
                /\ typed'.at = "external" /\ IsB(typed'.line) )
               => menu' = "PackageMenu"
         ]_vars
    /\ [](menu = "ExternalPackageMenu" =>
              /\ idx \in DOMAIN selected /\ selected[idx] = "5"
              /\ executed # <<>> /\ executed[Len(executed)] = "5")

\* B at the external menu ended the batch 5: the package menu's Enter prompt.
C17_Witness ==
    /\ typed = Read("external", <<"B">>)
    /\ menu = "PackageMenu" /\ pc = "enter"
    /\ selected = <<"5">>

\* C18, as stated: when an install run from the external menu has failed,
\* the return to the package batch reports id 5 as failed and marks the batch
\* as failed.
C18_ExternalFailureSurfaces ==
    [][ ( /\ menu = "ExternalPackageMenu" /\ menu' = "PackageMenu"
          /\ \E i \in DOMAIN ext_report : ext_report[i].out = "failed" )
            => /\ report' = Append(report, Entry("5", "failed"))
               /\ any_failed'
      ]_vars

\* C19, as stated: the process ends only at the main menu, on q.
C19_EndsOnlyOnQuit ==
    [][ menu' \in {"Exit", "Crashed"} /\ menu \notin {"Exit", "Crashed"}
            => /\ menu = "MainMenu" /\ pc = "input"
               /\ typed'.at = "main" /\ typed'.line \in {<<"q">>, <<"Q">>}
      ]_vars

(***************************************************************************)
(* Properties of the settings menu on a host (SpecSettings).               *)
(***************************************************************************)
\* C20: the settings menu is never at its prompt without show_settings_menu
\* having just run the four probes, and the statuses on display are what the
\* probes return on the host as it is then, whatever a setup has changed.
C20_StatusesAreFresh ==
    /\ [](menu = "SettingsMenu" /\ pc = "input" =>
              \A p \in ProbeNames :
                  /\ shown[p] \in {"O", "X", "N"}
                  /\ shown[p] = CASE p = "emacs_server" -> check_emacs_server_status(host).status
                                  [] p = "firefox_private" -> check_firefox_private_status(host).status
                                  [] p = "displayport" -> check_displayport_status(host).status
                                  [] p = "power_management" -> check_power_management_status(host).status)
    /\ [][ menu' = "SettingsMenu" /\ pc' = "input" =>
               menu = "SettingsMenu" /\ pc = "display" /\ host' = host
         ]_vars

\* The menu shown again after setting 2 was set up: its status went to O.
C20_Witness ==
    /\ menu = "SettingsMenu" /\ pc = "input"
    /\ typed.at = "enter"
    /\ report = <<Entry("2", "ok")>>
    /\ shown["firefox_private"] = "O"
    /\ shown["displayport"] = "X"

(***************************************************************************)
(* C21.  In SettingsMenu a single registered id runs exactly that one      *)
(* setup; `all` runs the setups 1, 2, 3, 4 one after the other in that     *)
(* order, each of them attempted also when an earlier one returned a       *)
(* failure; any other line but b (a comma-separated list of ids included)  *)
(* executes nothing and shows SettingsMenu again, with no continue prompt. *)
(***************************************************************************)
SettingsBatchLive == menu = "SettingsMenu" /\ pc \in {"batch", "ask", "enter"}

C21_SettingsSelection ==
    /\ [][(menu = "SettingsMenu" /\ pc = "input" /\ typed'.at = "settings") =>
            LET choice == Strip(typed'.line[1])
            IN  IF choice \in SettingsIds
                THEN /\ menu' = "SettingsMenu" /\ pc' = "batch"
                     /\ selected' = <<choice>> /\ executed' = <<>> /\ report' = <<>>
                ELSE IF IsAll(typed'.line)
                THEN /\ menu' = "SettingsMenu" /\ pc' = "batch"
                     /\ selected' = <<"1", "2", "3", "4">>
                     /\ executed' = <<>> /\ report' = <<>>
                ELSE IF IsB(typed'.line)
                THEN menu' = "MainMenu"
                ELSE /\ menu' = "SettingsMenu" /\ pc' = "display"
                     /\ UNCHANGED <<selected, executed, report>>]_vars
    /\ [][(menu = "SettingsMenu" /\ pc = "batch" /\ menu' = "SettingsMenu") =>
            /\ executed' = Append(executed, selected[idx])
            /\ Len(report') = Len(report) + 1
            /\ selected' = selected]_vars
    /\ [](SettingsBatchLive =>
            /\ executed = SubSeq(selected, 1, Len(executed))
            /\ [i \in DOMAIN report |-> report[i].id] = executed
            /\ (pc = "batch" => executed # selected)
            /\ (pc \in {"ask", "enter"} => executed = selected))

\* `all` was typed, setup 1 returned a failure and setups 2, 3, 4 ran after it.
C21_Witness ==
    /\ menu = "SettingsMenu" /\ pc = "ask"
    /\ selected = <<"1", "2", "3", "4">>
    /\ executed = selected
    /\ report[1] = Entry("1", "failed")
    /\ report[4] = Entry("4", "ok")

(***************************************************************************)
(* C22.  Selecting a setting id always executes its setup, also when the   *)
(* status displayed for it is O: the id typed at the settings prompt       *)
(* becomes the batch whatever the statuses are, and every selection of a   *)
(* batch has its setup function run on the host; none is skipped.          *)
(***************************************************************************)
C22_NoSkipOnStatus ==
    /\ [][(menu = "SettingsMenu" /\ pc = "input" /\ typed'.at = "settings"
            /\ Strip(typed'.line[1]) \in SettingsIds) =>
               /\ pc' = "batch" /\ menu' = "SettingsMenu"
               /\ selected' = <<Strip(typed'.line[1])>>]_vars
    /\ [][(menu = "SettingsMenu" /\ pc = "batch") =>
               /\ executed' = Append(executed, selected[idx])
               /\ \E o \in RunFrom(settings_functions(selected[idx]), 1, host) :
                      host' = o.host]_vars

\* Setting 2 was displayed as O, was selected, and its setup ran again.
C22_Witness ==
    /\ menu = "SettingsMenu" /\ pc = "enter"
    /\ typed = Read("settings", <<"2">>)
    /\ shown["firefox_private"] = "O"
    /\ selected = <<"2">> /\ executed = <<"2">>
    /\ report = <<Entry("2", "ok")>>

(***************************************************************************)
(* Properties of startup (SpecStartup).                                    *)
(***************************************************************************)
\* A non-blank line that is not a header comes before the first header.
ContentBeforeHeader(lines) ==
    \E i \in DOMAIN lines :
        /\ Strip(lines[i]) # ""
        /\ ~IsHeader(Strip(lines[i]))
        /\ \A j \in 1..(i - 1) : ~IsHeader(Strip(lines[j]))

\* The manifest is missing, cannot be read, or is not in the manifest format.
Unusable(f) == f.st \in {"absent", "unreadable"} \/ ContentBeforeHeader(f.lines)

\* C23: when the manifest is missing or cannot be parsed the process ends with
\* a non-zero status before any menu is shown and before any action runs; the
\* process left by q at the main menu ends with status 0.
C23_BadManifestExitsNonZero ==
    /\ [](menu # "Start" /\ Unusable(manifest) =>
              /\ menu = "Exit" /\ exit_code # 0 /\ exit_code # -1
              /\ typed = NoInput /\ executed = <<>>)
    /\ [](menu = "Exit" /\ typed.at = "main" => exit_code = 0)

\* C24: a manifest with a content line before any [section] header is a
\* malformed-manifest error, fatal at startup: the process ends with a
\* non-zero status and no parsed manifest.
C24_ContentBeforeHeaderIsError ==
    [](menu # "Start" /\ manifest.st = "ok" /\ ContentBeforeHeader(manifest.lines) =>
           menu = "Exit" /\ exit_code = 1 /\ packages = NoPackages)

(***************************************************************************)
(* Properties of the shell-profile appends (SpecProfile).                  *)
(***************************************************************************)
\* How many lines of file f are exactly line l.
Count(f, l) == Cardinality({i \in DOMAIN f.lines : f.lines[i] = l})

\* C25: after a function that adds its marker line to a shell profile has
\* run twice (both calls returning success), the profile holds the marker
\* line exactly once, whether the file existed before the first call or not.
C25_TwiceLeavesMarkerOnce ==
    \A a \in ProfileActions :
        (/\ Len(runs) = 2
         /\ runs[1] = Run(a, "ok", runs[1].host)
         /\ runs[2] = Run(a, "ok", runs[2].host)
         /\ Count(ProfileOf(a, runs[1].host), MarkerLine(a)) <= 1)
        => Count(ProfileOf(a, host), MarkerLine(a)) = 1

\* C29: the append is skipped only when the profile holds the exact marker
\* line: a successful call on a readable profile without that line, also
\* one with a line that merely contains the marker text, adds the line.
C29_OnlyExactLineSuppresses ==
    \A a \in ProfileActions :
        (/\ runs # <<>>
         /\ runs[Len(runs)].a = a /\ runs[Len(runs)].res = "ok"
         /\ ProfileOf(a, runs[Len(runs)].host).st = "ok"
         /\ Count(ProfileOf(a, runs[Len(runs)].host), MarkerLine(a)) = 0)
        => Count(ProfileOf(a, host), MarkerLine(a)) = 1

(***************************************************************************)
(* C26.  When the install tool (sudo apt install) exits non-zero, the      *)
(* function returns a failure whose reason contains the tool's diagnostic  *)
(* output (e.stderr), and that reason is what the menu loop receives and   *)
(* prints for the failed id.                                               *)
(***************************************************************************)
InstallToolSteps == {"apt_install", "apt_deps"}

C26_InstallFailureCarriesDiagnostic ==
    /\ [][(/\ act # "none" /\ ares.kind = "none" /\ apc \in DOMAIN Steps(act)
            /\ Steps(act)[apc].n \in InstallToolSteps
            /\ ran' = Append(ran, [i |-> apc, n |-> Steps(act)[apc].n, out |-> "nonzero"])) =>
               /\ ares'.kind = "fail"
               /\ "stderr" \in Range(ares'.err)
               /\ ares'.err[1] \in {"Failed to install",
                                     "Failed to install bluetuith dependencies",
                                     "Failed to install ncpamixer dependencies"}]_vars
    /\ [][(act # "none" /\ act' = "none") =>
               report' = <<[id |-> act, out |-> ares.kind, error |-> ares.err]>>]_vars

\* install_basic_packages has returned after apt failed on section dev: the
\* menu loop holds the failure with the diagnostic.
C26_Witness ==
    /\ act = "none"
    /\ report = <<[id |-> "install_basic_packages", out |-> "fail",
                   error |-> <<"Failed to install", "basic development",
                               "packages", "stderr">>]>>

(***************************************************************************)
(* C27.  At the Emacs version prompt an empty or blank line resolves to    *)
(* the default: the latest version listed on the release index, or 30.1    *)
(* when the lookup failed or found no version.                             *)
(***************************************************************************)
C27_EmptyInputIsDefault ==
    (fpc # "idle" /\ entered \in {"", " "}) =>
        IF index.st = "error" \/ index.matches = <<>>
        THEN version = "30.1"
        ELSE /\ version \in Range(index.matches)
             /\ \A w \in Range(index.matches) : ~PartsLess(Parts(version), Parts(w))

\* A blank line was typed; the page listed 9.9 and, after it, 30.2.
C27_Witness ==
    /\ fpc = "loop" /\ entered = " "
    /\ index = Index("ok", <<"9.9", "30.2">>)
    /\ version = "30.2"

(***************************************************************************)
(* C28.  For each of the four settings: when its setup function returns    *)
(* success, the status probe of that setting, run on the host as the setup *)
(* left it, returns O.                                                     *)
(***************************************************************************)
C28_SuccessThenConfigured ==
    [][(/\ menu = "SettingsMenu" /\ pc = "batch"
        /\ Len(report') = Len(report) + 1
        /\ report'[Len(report')] = Entry(selected[idx], "ok")) =>
           Probe(StatusOf(selected[idx]), host').status = "O"]_vars

(***************************************************************************)
(* C30.  install_dwm_dependencies runs no make step unless all five        *)
(* required programs were found in the suckless directory; it looks for    *)
(* dwm, st, dmenu, slock, slstatus in that order, and when one is missing  *)
(* it returns at once the failure that names exactly that program.         *)
(***************************************************************************)
required_programs == <<"dwm", "st", "dmenu", "slock", "slstatus">>
GlobStep(program) == "glob_" \o program
MakeSteps == {k \o program : k \in {"make_", "install_"}, program \in Range(required_programs)}

C30_PrerequisitesBeforeMake ==
    act = "install_dwm_dependencies" =>
        /\ \A k \in DOMAIN ran :
               ran[k].n \in MakeSteps =>
                   \A program \in Range(required_programs) :
                       \E j \in 1..(k - 1) :
                           ran[j].n = GlobStep(program) /\ ran[j].out = "ok"
        /\ \A k \in DOMAIN ran : \A i \in 2..Len(required_programs) :
               ran[k].n = GlobStep(required_programs[i]) =>
                   /\ k > 1
                   /\ ran[k - 1].n = GlobStep(required_programs[i - 1])
                   /\ ran[k - 1].out = "ok"
        /\ \A k \in DOMAIN ran : \A program \in Range(required_programs) :
               (ran[k].n = GlobStep(program) /\ ran[k].out = "fail") =>
                   /\ k = Len(ran)
                   /\ ares = Failure(<<"Required program", program, "not found">>)

\* dwm and st were found and dmenu was not: the function has returned the
\* failure naming dmenu, after six steps and no make.
C30_Witness ==
    /\ act = "install_dwm_dependencies"
    /\ Len(ran) = 6
    /\ ran[4].n = "glob_dwm" /\ ran[5].n = "glob_st"
    /\ ran[6] = [i |-> 6, n |-> "glob_dmenu", out |-> "fail"]
    /\ ares = Failure(<<"Required program", "dmenu", "not found">>)

(***************************************************************************)
(* C31.  Every non-blank, non-header line that follows a section header is *)
(* in the parsed manifest, in file order, in the item list of the section  *)
(* opened last before it; this for every file content, repeated headers    *)
(* and the header [] included.                                             *)
(***************************************************************************)
\* The section open at line i: the name of the last header before it, as
\* <<name>>, or <<>> when no header comes before line i.
OpenAt(lines, i) ==
    LET hs == {j \in 1..(i - 1) : IsHeader(Strip(lines[j]))}
    IN  IF hs = {} THEN <<>>
        ELSE <<SectionName(Strip(lines[CHOOSE j \in hs : \A k \in hs : k <= j]))>>

\* The content lines of the file that follow a header naming section sec.
RECURSIVE ItemsUpTo(_, _, _)
ItemsUpTo(lines, sec, n) ==
    IF n = 0 THEN <<>>
    ELSE LET line == Strip(lines[n])
             rest == ItemsUpTo(lines, sec, n - 1)
         IN  IF line # "" /\ ~IsHeader(line) /\ OpenAt(lines, n) = <<sec>>
             THEN Append(rest, line) ELSE rest

C31_EveryItemIsKept ==
    (menu # "Start" /\ manifest.st = "ok") =>
        \A i \in DOMAIN manifest.lines :
            LET line == Strip(manifest.lines[i])
                open == OpenAt(manifest.lines, i)
            IN  (line # "" /\ ~IsHeader(line) /\ open # <<>>) =>
                    /\ open[1] \in DOMAIN packages
                    /\ packages[open[1]] =
                           ItemsUpTo(manifest.lines, open[1], Len(manifest.lines))

(***************************************************************************)
(* C32.  check_firefox_private_status returns N whenever Firefox itself is *)
(* not installed, that is, when /usr/share/applications holds no Firefox   *)
(* desktop entry other than firefox-private.desktop, the file the setup    *)
(* creates; the presence of that file does not count as the prerequisite.  *)
(***************************************************************************)
\* The Firefox desktop entries that are not the one setup_firefox_private writes.
FirefoxItself(apps) == GlobFirefox(apps) \ {"firefox-private.desktop"}

C32_MarkerIsNoPrerequisite ==
    (probe = "firefox_private" /\ FirefoxItself(host.apps) = {}) => pres.status = "N"

(***************************************************************************)
(* C33.  A function that needs a manifest section (dev, dwm, emacs, utils) *)
(* returns, when the section is absent, the failure that names the section *)
(* without having caused any side effect: no download, extraction, package *)
(* installation or build has run before.                                   *)
(***************************************************************************)
\* The message of each function for its missing section.
NoSection(a) ==
    CASE a = "install_basic_packages"   -> <<"No 'dev' section found in package list">>
      [] a = "install_dwm_dependencies" -> <<"No 'dwm' section found in package list">>
      [] a = "install_emacs"            -> <<"No 'emacs' section found in package list">>
      [] a = "install_utils"            -> <<"No 'utils' section found in package list">>

C33_MissingSectionNoSideEffect ==
    act \in {"install_basic_packages", "install_dwm_dependencies",
             "install_emacs", "install_utils"} =>
        \A k \in DOMAIN ran :
            (ran[k].n = "has_section" /\ ran[k].out = "fail") =>
                /\ ares = Failure(NoSection(act))
                /\ \A j \in 1..(k - 1) : Steps(act)[ran[j].i].kind \notin {"run", "test"}

(***************************************************************************)
(* C34.  In install_emacs, after make check has exited non-zero the        *)
(* operator is asked, and sudo make install runs only on the answer y (in  *)
(* either case); any other answer, the empty line included, returns the    *)
(* failure and no install step runs.  After make check has exited zero the *)
(* install step follows without a prompt.                                  *)
(***************************************************************************)
C34_InstallOnlyOnYes ==
    /\ [][(act = "install_emacs" /\ ares.kind = "ask") =>
               /\ typed'.at = "proceed"
               /\ ran' = ran
               /\ IF IsYes(typed'.line)
                  THEN ares' = NoResult /\ Steps(act)[apc'].n = "make_install"
                  ELSE /\ ares' = Failure(<<"Installation cancelled by user due to test issues">>)
                       /\ apc' = apc]_vars
    /\ [][(/\ act = "install_emacs" /\ ares.kind = "none" /\ apc \in DOMAIN Steps(act)
            /\ Steps(act)[apc].n = "make_check" /\ Len(ran') = Len(ran) + 1) =>
               CASE ran'[Len(ran')].out = "ok" ->
                        ares' = NoResult /\ Steps(act)[apc'].n = "make_install"
                 [] ran'[Len(ran')].out = "nonzero" -> ares'.kind = "ask"
                 [] OTHER -> TRUE]_vars
    /\ [](act = "install_emacs" =>
              \A k \in DOMAIN ran :
                  ran[k].n = "make_install" =>
                      /\ k > 1 /\ ran[k - 1].n = "make_check"
                      /\ \/ ran[k - 1].out = "ok"
                         \/ /\ ran[k - 1].out = "nonzero"
                            /\ typed.at = "proceed" /\ IsYes(typed.line))

\* make check failed, Y was answered and the install step has run.
C34_Witness ==
    /\ act = "install_emacs"
    /\ typed = [at |-> "proceed", line |-> <<"Y">>]
    /\ Len(ran) >= 2
    /\ ran[Len(ran)].n = "make_install"
    /\ ran[Len(ran) - 1].n = "make_check" /\ ran[Len(ran) - 1].out = "nonzero"

(***************************************************************************)
(* C35.  In ExternalPackageMenu a failed install ends its batch: no later  *)
(* selection of the batch is executed.  An unknown id does not: the        *)
(* selections after it are handled.  A batch is left only to the question  *)
(* whether to install more, and from that question only the answer y shows *)
(* ExternalPackageMenu again.                                              *)
(***************************************************************************)
ExtBatchLive == menu = "ExternalPackageMenu" /\ pc \in {"batch", "more"}

ExtKnown(id) == id \in ExternalIds

C35_ExternalBatch ==
    /\ [](ExtBatchLive =>
            LET n == Len(ext_report)
                fails == {i \in 1..n : ext_report[i].out = "failed"}
            IN  /\ n <= Len(ext_selected)
                /\ [i \in 1..n |-> ext_report[i].id] = SubSeq(ext_selected, 1, n)
                /\ ext_executed = SelectSeq(SubSeq(ext_selected, 1, n), ExtKnown)
                /\ \A i \in 1..n :
                      ext_report[i].out = "invalid" <=> ~ExtKnown(ext_selected[i])
                /\ fails \subseteq {n}
                /\ (pc = "batch" => fails = {} /\ n < Len(ext_selected) /\ ext_idx = n + 1)
                /\ (pc = "more" => fails # {} \/ n = Len(ext_selected)))
    /\ [][(menu = "ExternalPackageMenu" /\ pc = "batch") =>
            \/ menu' = "Crashed"
            \/ menu' = "ExternalPackageMenu" /\ pc' \in {"batch", "more"}]_vars
    /\ [][(menu = "ExternalPackageMenu" /\ pc = "more") =>
            /\ typed'.at = "more"
            /\ UNCHANGED ext_executed \/ ext_executed' = <<>>
            /\ IF Lower(Strip(typed'.line[1])) = "y"
               THEN menu' = "ExternalPackageMenu" /\ pc' = "input"
               ELSE menu' = "PackageMenu"]_vars
    /\ [][(menu = "ExternalPackageMenu" /\ menu' = "ExternalPackageMenu" /\ pc' = "input") =>
            pc = "more" /\ Lower(Strip(typed'.line[1])) = "y"]_vars

\* `1,2` was typed, install 1 returned a failure, 2 was not run, and the
\* answer Y to the question showed the menu again.
C35_Witness ==
    /\ menu = "ExternalPackageMenu" /\ pc = "input"
    /\ typed = Read("more", <<"Y">>)
    /\ ext_selected = <<"1", "2">>
    /\ ext_report = <<Entry("1", "failed")>>
    /\ ext_executed = <<"1">>

(***************************************************************************)
(* C36.  The rewrite of logind.conf by setup_power_management is           *)
(* idempotent and, whatever the file held, leaves exactly one line         *)
(* IdleAction=hibernate and exactly one line IdleActionSec=15min, every    *)
(* other line unchanged and in its original order.                         *)
(***************************************************************************)
\* The host call i of runs left behind.
HostAfter(i) == IF i = Len(runs) THEN host ELSE runs[i + 1].host

NotIdleSetting(line) == ~IsIdleAction(line) /\ ~IsIdleActionSec(line)

C36_LogindRewrite ==
    \A i \in DOMAIN runs :
        (runs[i].a = "setup_power_management" /\ runs[i].res = "ok") =>
            LET old == runs[i].host.logind
                new == HostAfter(i).logind
            IN  /\ new.st = "ok"
                /\ Count(new, "IdleAction=hibernate") = 1
                /\ Count(new, "IdleActionSec=15min") = 1
                /\ SelectSeq(new.lines, NotIdleSetting) = SelectSeq(old.lines, NotIdleSetting)
                /\ RewriteLogind(new.lines) = new.lines

====
